---- MODULE Spec2Model ----
(***************************************************************************)
(* A model of the API-specification quality analyzer (davag/api-analyzer): *)
(* the scorer of src/app/utils/analyzer.ts and the upload route that       *)
(* decodes an uploaded file and hands the decoded value to the scorer.     *)
(*                                                                         *)
(* Documents are JavaScript values.  Every value is a record [t, v] with   *)
(* t the JavaScript type and v the payload, so that the checks of the      *)
(* code (truthiness, property access on null, method calls on values of    *)
(* the wrong type) are computed as the JavaScript engine computes them.    *)
(* Scores are exact rationals [n, d] in lowest terms; the IEEE rounding    *)
(* noise of the doubles the code adds up (0.8 - 0.2 = 0.6000000000000001)  *)
(* is not modelled.                                                        *)
(***************************************************************************)
EXTENDS Integers, Sequences, FiniteSets, TLC

VARIABLES
    source,     \* the document as it is written in the uploaded text
    spec,       \* the decoded document handed to analyzeApiSpec
    reports,    \* outcomes of the calls of analyzeApiSpec, in call order
    clock,      \* the wall clock read by new Date()
    upload,     \* the upload route (POST /api/analyze): the request in progress
    fs,         \* the upload directory: its per-analysis directories and files
    analysisResults, \* the in-memory Map of the upload route
    retrieved,  \* the last request of GET /api/analyze/[id] and its response
    page        \* the upload page: its React state, its timer and its request

vars == <<source, spec, reports, clock, upload, fs, analysisResults, retrieved, page>>

-----------------------------------------------------------------------------
(* JavaScript values *)

Undefined == [t |-> "undefined", v |-> 0]
Null == [t |-> "null", v |-> 0]
Str(s) == [t |-> "string", v |-> s]
Num(n) == [t |-> "number", v |-> n]
Obj(entries) == [t |-> "object", v |-> entries]
Arr(items) == [t |-> "array", v |-> items]

\* The TypeError a property access on null/undefined, or a call of a method
\* the value does not have, raises.
TypeError == [t |-> "TypeError", v |-> 0]

\* x is a thrown TypeError (scores and reports are records without a type tag)
IsThrow(x) == "t" \in DOMAIN x /\ x.t = "TypeError"

IsNullish(x) == x.t \in {"undefined", "null"}

\* ToBoolean
Truthy(x) ==
    CASE x.t \in {"undefined", "null"} -> FALSE
      [] x.t = "string" -> x.v # ""
      [] x.t = "number" -> x.v # 0
      [] OTHER -> TRUE

\* a || b
Or(a, b) == IF Truthy(a) THEN a ELSE b

\* the array index i (from 0) as a property key
IndexKey(i) == ToString(i)

\* the own enumerable property keys of x in the order for-in and Object.keys
\* visit them; for-in over null/undefined visits nothing
Keys(x) ==
    CASE x.t = "object" -> [i \in 1..Len(x.v) |-> x.v[i][1]]
      [] x.t \in {"array", "string"} -> [i \in 1..Len(x.v) |-> IndexKey(i - 1)]
      [] OTHER -> <<>>

\* the position of the key k among keys, 0 if it is not one of them
KeyIndex(keys, k) ==
    IF \E i \in 1..Len(keys) : keys[i] = k
    THEN CHOOSE i \in 1..Len(keys) : keys[i] = k
    ELSE 0

HasKey(x, k) == KeyIndex(Keys(x), k) > 0

\* the own property of x at position i of its keys (0: x has no such key)
PropertyAt(x, k, i) ==
    CASE x.t = "object" -> IF i > 0 THEN x.v[i][2] ELSE Undefined
      [] x.t = "array" ->
            IF k = "length" THEN Num(Len(x.v))
            ELSE IF i > 0 THEN x.v[i] ELSE Undefined
      [] x.t = "string" ->
            IF k = "length" THEN Num(Len(x.v))
            ELSE IF i > 0 THEN Str(SubSeq(x.v, i, i)) ELSE Undefined
      [] OTHER -> Undefined

\* x.k / x[k]: a TypeError on null and undefined, undefined for a key the
\* value does not have
Get(x, k) ==
    IF IsNullish(x) THEN TypeError ELSE PropertyAt(x, k, KeyIndex(Keys(x), k))

\* x?.k
OptGet(x, k) == IF IsNullish(x) THEN Undefined ELSE Get(x, k)

\* x.length > 0 (x is not null/undefined where the code evaluates it)
IsPositive(n) == n.t = "number" /\ n.v > 0

LengthPositive(x) == IsPositive(Get(x, "length"))

\* s.startsWith(prefix) for strings
StartsWith(s, prefix) ==
    Len(s) >= Len(prefix) /\ SubSeq(s, 1, Len(prefix)) = prefix

-----------------------------------------------------------------------------
(* Exact rationals *)

RECURSIVE Gcd(_, _)
Gcd(a, b) == IF b = 0 THEN a ELSE Gcd(b, a % b)

Abs(a) == IF a < 0 THEN -a ELSE a

\* n/d in lowest terms, d > 0
Rat(n, d) ==
    LET g == Gcd(Abs(n), d)
    IN  [n |-> n \div g, d |-> d \div g]

Tenths(k) == Rat(k, 10)
Hundredths(k) == Rat(k, 100)

RAdd(a, b) == Rat(a.n * b.d + b.n * a.d, a.d * b.d)
RSub(a, b) == Rat(a.n * b.d - b.n * a.d, a.d * b.d)
RMul(a, b) == Rat(a.n * b.n, a.d * b.d)
RLe(a, b) == a.n * b.d <= b.n * a.d

\* the sum of a sequence of rationals
RECURSIVE RSum(_)
RSum(terms) == IF terms = <<>> THEN Rat(0, 1) ELSE RAdd(Head(terms), RSum(Tail(terms)))

RMin(a, b) == IF RLe(a, b) THEN a ELSE b
RMax(a, b) == IF RLe(a, b) THEN b ELSE a

\* Math.round(x * 100) / 100: Math.round is floor(y + 1/2)
Round2(x) == Hundredths((200 * x.n + x.d) \div (2 * x.d))

-----------------------------------------------------------------------------
(* String operations the analyzer uses *)

LowerLetters == "abcdefghijklmnopqrstuvwxyz"
UpperLetters == "ABCDEFGHIJKLMNOPQRSTUVWXYZ"
Digits == "0123456789"

CharAt(s, i) == SubSeq(s, i, i)

IsDigit(c) == \E i \in 1..Len(Digits) : CharAt(Digits, i) = c

UpperChar(c) ==
    IF \E i \in 1..Len(LowerLetters) : CharAt(LowerLetters, i) = c
    THEN CharAt(UpperLetters, CHOOSE i \in 1..Len(LowerLetters) : CharAt(LowerLetters, i) = c)
    ELSE c

\* s.toUpperCase()
RECURSIVE ToUpperCase(_)
ToUpperCase(s) ==
    IF s = "" THEN "" ELSE UpperChar(CharAt(s, 1)) \o ToUpperCase(SubSeq(s, 2, Len(s)))

AllDigits(s, from, to) == from <= to /\ \A i \in from..to : IsDigit(CharAt(s, i))

\* s.match(/^3\.\d+\.\d+$/) finds a match
MatchesVersion3(s) ==
    /\ Len(s) >= 5
    /\ CharAt(s, 1) = "3"
    /\ CharAt(s, 2) = "."
    /\ \E i \in 4..(Len(s) - 1) :
          /\ CharAt(s, i) = "."
          /\ AllDigits(s, 3, i - 1)
          /\ AllDigits(s, i + 1, Len(s))

LowerChar(c) ==
    IF \E i \in 1..Len(UpperLetters) : CharAt(UpperLetters, i) = c
    THEN CharAt(LowerLetters, CHOOSE i \in 1..Len(UpperLetters) : CharAt(UpperLetters, i) = c)
    ELSE c

\* s.toLowerCase()
RECURSIVE ToLowerCase(_)
ToLowerCase(s) ==
    IF s = "" THEN "" ELSE LowerChar(CharAt(s, 1)) \o ToLowerCase(SubSeq(s, 2, Len(s)))

\* s.endsWith(suffix)
EndsWith(s, suffix) ==
    Len(s) >= Len(suffix) /\ SubSeq(s, Len(s) - Len(suffix) + 1, Len(s)) = suffix

\* the index of the last c in s, 0 if there is none
LastIndexOf(s, c) ==
    IF \E i \in 1..Len(s) : CharAt(s, i) = c
    THEN CHOOSE i \in 1..Len(s) :
            CharAt(s, i) = c /\ \A j \in (i + 1)..Len(s) : CharAt(s, j) # c
    ELSE 0

\* path.basename(p)
BaseName(p) == SubSeq(p, LastIndexOf(p, "/") + 1, Len(p))

\* path.extname(p): from the last dot of the base name, empty when there is
\* no dot or the base name starts with its only dot
ExtName(p) ==
    LET base == BaseName(p)
        dot == LastIndexOf(base, ".")
    IN  IF dot <= 1 THEN "" ELSE SubSeq(base, dot, Len(base))

\* s.includes(part) for strings
StringIncludes(s, part) ==
    \E i \in 1..(Len(s) + 1) :
        i + Len(part) - 1 <= Len(s) /\ SubSeq(s, i, i + Len(part) - 1) = part

RECURSIVE JoinStrings(_, _)
\* String(x), as a template literal inserts x
JsString(x) ==
    CASE x.t = "string" -> x.v
      [] x.t = "number" -> ToString(x.v)
      [] x.t = "undefined" -> "undefined"
      [] x.t = "null" -> "null"
      [] x.t = "array" -> JoinStrings(x.v, 1)
      [] OTHER -> "[object Object]"

JoinStrings(items, i) ==
    IF i > Len(items) THEN ""
    ELSE (IF IsNullish(items[i]) THEN "" ELSE JsString(items[i]))
         \o (IF i < Len(items) THEN "," ELSE "")
         \o JoinStrings(items, i + 1)

-----------------------------------------------------------------------------
(* The traversal every scorer and finding generator repeats:               *)
(*   for (const path in paths) { const methods = paths[path];              *)
(*     for (const method in methods) { if (method === 'parameters') continue; *)
(*       const operation = methods[method]; ... } }                        *)

MethodRefsIn_parametersToo(path, methods, keys) ==
    [i \in 1..Len(keys) |->
        [path |-> path, method |-> keys[i], operation |-> Get(methods, keys[i])]]

\* the operations of one path in the order the inner loop visits them, each
\* with the path and method it is visited under
MethodRefsIn(path, methods, keys) ==
    SelectSeq([i \in 1..Len(keys) |->
                  [path |-> path, method |-> keys[i],
                   operation |-> Get(methods, keys[i])]],
              LAMBDA r : r.method # "parameters")

MethodRefsOf(path, methods) == MethodRefsIn(path, methods, Keys(methods))

MethodRefs(paths, path) == MethodRefsOf(path, Get(paths, path))

RECURSIVE OperationRefsFrom(_, _, _)
OperationRefsFrom(paths, keys, i) ==
    IF i > Len(keys) THEN <<>>
    ELSE MethodRefs(paths, keys[i]) \o OperationRefsFrom(paths, keys, i + 1)

\* the operations of the document in the order the two loops visit them
OperationRefs(paths) == OperationRefsFrom(paths, Keys(paths), 1)

\* some visited operation is null/undefined: reading a property of it throws
SomeOperationNullish(refs) ==
    \E i \in 1..Len(refs) : IsNullish(refs[i].operation)

Count(S) == Cardinality(S)

-----------------------------------------------------------------------------
(* calculateDocumentationScore *)

Zero == Rat(0, 1)
One == Rat(1, 1)

Bonus(cond, amount) == IF cond THEN amount ELSE Zero

\* count / totalPaths * cap
Fraction(count, totalPaths, cap) == RMul(Rat(count, totalPaths), cap)

\* lines 113-117: the three checks of spec.info
InfoTerms(info) ==
    << Bonus(Truthy(OptGet(info, "title")), Tenths(1)),
       Bonus(Truthy(OptGet(info, "description")), Tenths(1)),
       Bonus(Truthy(OptGet(info, "version")), Tenths(1)) >>

\* lines 134-137: the four tests an operation is counted by
HasDescription(operation) ==
    Truthy(Or(Get(operation, "description"), Get(operation, "summary")))

HasOperationId(operation) == Truthy(Get(operation, "operationId"))

NonEmptyResponses(responses) == Truthy(responses) /\ Len(Keys(responses)) > 0

HasResponses(operation) == NonEmptyResponses(Get(operation, "responses"))

NonEmptyParameters(parameters) == Truthy(parameters) /\ LengthPositive(parameters)

HasParameters(operation) == NonEmptyParameters(Get(operation, "parameters"))

\* lines 141-144: the four counters over totalPaths, which counts the
\* paths, not the operations
OperationTerms(refs, totalPaths) ==
    << Fraction(Count({i \in 1..Len(refs) : HasDescription(refs[i].operation)}),
                totalPaths, Tenths(2)),
       Fraction(Count({i \in 1..Len(refs) : HasOperationId(refs[i].operation)}),
                totalPaths, Tenths(1)),
       Fraction(Count({i \in 1..Len(refs) : HasResponses(refs[i].operation)}),
                totalPaths, Tenths(2)),
       Fraction(Count({i \in 1..Len(refs) : HasParameters(refs[i].operation)}),
                totalPaths, Tenths(2)) >>

DocumentationTerms(info, refs, totalPaths) ==
    IF totalPaths > 0
    THEN IF SomeOperationNullish(refs) THEN TypeError
         ELSE RSum(InfoTerms(info) \o OperationTerms(refs, totalPaths))
    ELSE RSum(InfoTerms(info))

DocumentationSumOver(info, paths) ==
    DocumentationTerms(info, OperationRefs(paths), Len(Keys(paths)))

DocumentationSum(spec_) ==
    DocumentationSumOver(Get(spec_, "info"), Or(Get(spec_, "paths"), Obj(<<>>)))

\* return Math.min(1, score), or the TypeError the function was left by
AtMostOne(score) == IF IsThrow(score) THEN TypeError ELSE RMin(One, score)

calculateDocumentationScore_unclamped(spec_) == DocumentationSum(spec_)

calculateDocumentationScore(spec_) == AtMostOne(DocumentationSum(spec_))

-----------------------------------------------------------------------------
(* calculateSyntaxScore *)

Penalty_twoTenths(cond, amount) == IF cond THEN Tenths(2) ELSE Zero

Penalty(cond, amount) == IF cond THEN amount ELSE Zero

OpenapiMismatch_majorOnly(openapi) ==
    IF ~Truthy(openapi) THEN FALSE
    ELSE openapi.t # "string" \/ ~StartsWith(openapi.v, "3.")

\* spec.openapi && !spec.openapi.match(...): a truthy value that is no string
\* has no match method
OpenapiMismatch(openapi) ==
    IF ~Truthy(openapi) THEN FALSE
    ELSE openapi.t # "string" \/ ~MatchesVersion3(openapi.v)

OpenapiMatchThrows(openapi) == Truthy(openapi) /\ openapi.t # "string"

\* line 162: spec.swagger && spec.swagger !== '2.0'
SwaggerMismatch(swagger) == Truthy(swagger) /\ swagger # Str("2.0")

SyntaxSum_noTitlePenalty(spec_) ==
    RSub(Tenths(8), RSum(
        << Penalty(~Truthy(Get(spec_, "paths")), Tenths(2)),
           Penalty(~Truthy(Get(spec_, "info")), Tenths(2)),
           Penalty(SwaggerMismatch(Get(spec_, "swagger")), Tenths(2)),
           Penalty(OpenapiMismatch(Get(spec_, "openapi")), Tenths(2)) >>))

SyntaxSum(spec_) ==
    RSub(Tenths(8), RSum(
        << Penalty(~Truthy(Get(spec_, "paths")), Tenths(2)),
           Penalty(~Truthy(Get(spec_, "info")), Tenths(2)),
           Penalty(~Truthy(OptGet(Get(spec_, "info"), "title")), Tenths(1)),
           Penalty(SwaggerMismatch(Get(spec_, "swagger")), Tenths(2)),
           Penalty(OpenapiMismatch(Get(spec_, "openapi")), Tenths(2)) >>))

calculateSyntaxScore_penalisesAnySwagger(spec_) ==
    IF OpenapiMatchThrows(Get(spec_, "openapi")) THEN TypeError
    ELSE RMax(Zero, RSub(SyntaxSum(spec_),
                         Penalty(Truthy(Get(spec_, "swagger")), Tenths(2))))

calculateSyntaxScore(spec_) ==
    IF OpenapiMatchThrows(Get(spec_, "openapi")) THEN TypeError
    ELSE RMax(Zero, SyntaxSum(spec_))

-----------------------------------------------------------------------------
(* calculateBestPracticesScore *)

\* for (const code in operation.responses): "found" at the first response
\* with examples/example (break), "throw" at a null/undefined response
\* reached before one, "none" otherwise
RECURSIVE ExamplesInResponses(_, _, _)
\* response.examples || response.example on one response
ExamplesIn(response) ==
    IF IsNullish(response) THEN "throw"
    ELSE IF Truthy(Or(Get(response, "examples"), Get(response, "example")))
         THEN "found"
         ELSE "none"

\* the outcome of a loop that is left at the first step that is not "none"
ElseRest(first, rest) == IF first = "none" THEN rest ELSE first

ExamplesInResponses(responses, codes, j) ==
    IF j > Len(codes) THEN "none"
    ELSE ElseRest(ExamplesIn(Get(responses, codes[j])),
                  ExamplesInResponses(responses, codes, j + 1))

ExamplesInOperation(responses) ==
    IF Truthy(responses) THEN ExamplesInResponses(responses, Keys(responses), 1)
    ELSE "none"

ExamplesInOperations_firstOnly(refs, i) ==
    IF i > Len(refs) \/ i > 1 THEN "none"
    ELSE IF IsNullish(refs[i].operation) THEN "throw"
    ELSE ExamplesInOperation(Get(refs[i].operation, "responses"))

\* the two outer loops, left by break as soon as hasExamples is set
RECURSIVE ExamplesInOperations(_, _)
ExamplesInOperations(refs, i) ==
    IF i > Len(refs) THEN "none"
    ELSE IF IsNullish(refs[i].operation) THEN "throw"
    ELSE ElseRest(ExamplesInOperation(Get(refs[i].operation, "responses")),
                  ExamplesInOperations(refs, i + 1))

\* line 175: spec.tags && spec.tags.length > 0
NonEmptyTags(tags) == Truthy(tags) /\ LengthPositive(tags)

BestPracticesTerms(tags, hasExamples) ==
    IF hasExamples = "throw" THEN TypeError
    ELSE RSum(<< Bonus(NonEmptyTags(tags), Tenths(2)),
                 Tenths(3),
                 Bonus(hasExamples = "found", Tenths(3)),
                 Tenths(2) >>)

BestPracticesSum(spec_) ==
    BestPracticesTerms(Get(spec_, "tags"),
        ExamplesInOperations(OperationRefs(Or(Get(spec_, "paths"), Obj(<<>>))), 1))

calculateBestPracticesScore(spec_) == AtMostOne(BestPracticesSum(spec_))

-----------------------------------------------------------------------------
(* calculateSecurityScore *)

\* for (const server of servers): "found" at the first server whose url
\* starts with https:// (break); "throw" at a null/undefined server or a
\* truthy url that is no string (no startsWith method)
\* url && url.startsWith('https://')
UrlIsHttps(url) ==
    IF ~Truthy(url) THEN "none"
    ELSE IF url.t # "string" THEN "throw"
    ELSE IF StartsWith(url.v, "https://") THEN "found"
    ELSE "none"

\* server.url && server.url.startsWith('https://')
ServerIsHttps(server) ==
    IF IsNullish(server) THEN "throw" ELSE UrlIsHttps(Get(server, "url"))

RECURSIVE HttpsInServers_firstOnly(_, _)
HttpsInServers_firstOnly(servers, i) ==
    IF i > 1 THEN "none"
    ELSE ElseRest(ServerIsHttps(Get(servers, Keys(servers)[i])),
                  HttpsInServers_firstOnly(servers, i + 1))

RECURSIVE HttpsInServers(_, _)
HttpsInServers(servers, i) ==
    IF i > Len(Keys(servers)) THEN "none"
    ELSE ElseRest(ServerIsHttps(Get(servers, Keys(servers)[i])),
                  HttpsInServers(servers, i + 1))

\* schemes.includes('https')
IncludesHttps(schemes) ==
    CASE schemes.t = "array" ->
            IF \E i \in 1..Len(schemes.v) : schemes.v[i] = Str("https")
            THEN "found" ELSE "none"
      [] schemes.t = "string" ->
            IF StringIncludes(schemes.v, "https") THEN "found" ELSE "none"
      [] OTHER -> "throw"

\* lines 223-235: the value of hasHttps after the check, or "throw"
\* for (const server of servers) over a value that is not iterable throws
HttpsInIterable(servers) ==
    IF servers.t \in {"array", "string"} THEN HttpsInServers(servers, 1) ELSE "throw"

\* (host && schemes.includes('https'))
HttpsInSchemes(host, schemes) ==
    IF Truthy(host) THEN IncludesHttps(schemes) ELSE "none"

HasHttpsOver(servers, host, schemes) ==
    IF LengthPositive(servers) THEN HttpsInIterable(servers)
    ELSE HttpsInSchemes(host, schemes)

ScoreHasHttps(spec_) ==
    HasHttpsOver(Or(Get(spec_, "servers"), Arr(<<>>)), Get(spec_, "host"),
                 Or(Get(spec_, "schemes"), Arr(<<>>)))

\* line 219: spec.security && spec.security.length > 0
NonEmptySecurity(security) == Truthy(security) /\ LengthPositive(security)

\* line 216: spec.securityDefinitions || spec.components?.securitySchemes
HasSecuritySchemes(spec_) ==
    Truthy(Or(Get(spec_, "securityDefinitions"),
              OptGet(Get(spec_, "components"), "securitySchemes")))

SecurityTerms(spec_, hasHttps) ==
    IF hasHttps = "throw" THEN TypeError
    ELSE RSum(<< Bonus(HasSecuritySchemes(spec_), Tenths(5)),
                 Bonus(NonEmptySecurity(Get(spec_, "security")), Tenths(3)),
                 Bonus(hasHttps = "found", Tenths(2)) >>)

SecuritySum(spec_) == SecurityTerms(spec_, ScoreHasHttps(spec_))

calculateSecurityScore(spec_) == AtMostOne(SecuritySum(spec_))

-----------------------------------------------------------------------------
(* calculateUsabilityScore *)

ErrorDescriptionIn_4xxOnly(code, response) ==
    IF StartsWith(code, "4")
    THEN IF IsNullish(response) THEN "throw"
         ELSE IF Truthy(Get(response, "description")) THEN "found"
         ELSE "none"
    ELSE "none"

\* for (const code in operation.responses): only a response under a 4xx or
\* 5xx code is read
RECURSIVE ErrorDescriptionInResponses(_, _, _)
\* (code.startsWith('4') || code.startsWith('5')) && response.description
ErrorDescriptionIn(code, response) ==
    IF StartsWith(code, "4") \/ StartsWith(code, "5")
    THEN IF IsNullish(response) THEN "throw"
         ELSE IF Truthy(Get(response, "description")) THEN "found"
         ELSE "none"
    ELSE "none"

ErrorDescriptionInResponses(responses, codes, j) ==
    IF j > Len(codes) THEN "none"
    ELSE ElseRest(ErrorDescriptionIn(codes[j], Get(responses, codes[j])),
                  ErrorDescriptionInResponses(responses, codes, j + 1))

ErrorDescriptionInOperation(responses) ==
    IF Truthy(responses)
    THEN ErrorDescriptionInResponses(responses, Keys(responses), 1)
    ELSE "none"

RECURSIVE ErrorDescriptionInOperations(_, _)
ErrorDescriptionInOperations(refs, i) ==
    IF i > Len(refs) THEN "none"
    ELSE IF IsNullish(refs[i].operation) THEN "throw"
    ELSE ElseRest(ErrorDescriptionInOperation(Get(refs[i].operation, "responses")),
                  ErrorDescriptionInOperations(refs, i + 1))

\* the value of hasErrorDescriptions after the loops, or "throw"
HasErrorDescriptions(spec_) ==
    ErrorDescriptionInOperations(OperationRefs(Or(Get(spec_, "paths"), Obj(<<>>))), 1)

UsabilitySum_noNamingTerm(hasErrorDescriptions) ==
    IF hasErrorDescriptions = "throw" THEN TypeError
    ELSE RSum(<< Tenths(3), Bonus(hasErrorDescriptions = "found", Tenths(3)) >>)

UsabilitySum(hasErrorDescriptions) ==
    IF hasErrorDescriptions = "throw" THEN TypeError
    ELSE RSum(<< Tenths(3),
                 Bonus(hasErrorDescriptions = "found", Tenths(3)),
                 Tenths(4) >>)

calculateUsabilityScore(spec_) == AtMostOne(UsabilitySum(HasErrorDescriptions(spec_)))

-----------------------------------------------------------------------------
(* The finding generators.  A generator returns the array of its findings, *)
(* or the TypeError it raises.                                             *)

Finding(severity, message, path) ==
    [severity |-> severity, message |-> message, path |-> path]

OperationName(ref) == ToUpperCase(ref.method) \o " " \o ref.path

DocumentationFindingsOf_ignoresSummary(ref) ==
        (IF ~Truthy(Get(ref.operation, "description"))
         THEN << Finding("warning",
                     "Operation " \o OperationName(ref) \o " is missing a description",
                     <<"paths", ref.path, ref.method, "description">>) >>
         ELSE <<>>)
        \o
        (IF ~Truthy(Get(ref.operation, "operationId"))
         THEN << Finding("warning",
                     "Operation " \o OperationName(ref) \o " is missing an operationId",
                     <<"paths", ref.path, ref.method, "operationId">>) >>
         ELSE <<>>)

\* the findings of one operation, in the order the checks push them
DocumentationFindingsOf(ref) ==
        (IF /\ ~Truthy(Get(ref.operation, "description"))
            /\ ~Truthy(Get(ref.operation, "summary"))
         THEN << Finding("warning",
                     "Operation " \o OperationName(ref) \o " is missing a description",
                     <<"paths", ref.path, ref.method, "description">>) >>
         ELSE <<>>)
        \o
        (IF ~Truthy(Get(ref.operation, "operationId"))
         THEN << Finding("warning",
                     "Operation " \o OperationName(ref) \o " is missing an operationId",
                     <<"paths", ref.path, ref.method, "operationId">>) >>
         ELSE <<>>)

RECURSIVE DocumentationFindingsFrom(_, _)
DocumentationFindingsFrom(refs, i) ==
    IF i > Len(refs) THEN <<>>
    ELSE DocumentationFindingsOf(refs[i]) \o DocumentationFindingsFrom(refs, i + 1)

DocumentationFindingsOver(info, refs) ==
    IF SomeOperationNullish(refs) THEN TypeError
    ELSE Arr(
        (IF ~Truthy(OptGet(info, "title"))
         THEN << Finding("error", "API title is missing", <<"info", "title">>) >>
         ELSE <<>>)
        \o
        (IF ~Truthy(OptGet(info, "description"))
         THEN << Finding("warning", "API description is missing",
                     <<"info", "description">>) >>
         ELSE <<>>)
        \o DocumentationFindingsFrom(refs, 1))

getDocumentationFindings(spec_) ==
    DocumentationFindingsOver(Get(spec_, "info"),
        OperationRefs(Or(Get(spec_, "paths"), Obj(<<>>))))

getSyntaxFindings_reportsTitle(spec_) ==
    Arr(
        (IF ~Truthy(Get(spec_, "paths"))
         THEN << Finding("error", "API paths are missing", <<"paths">>) >>
         ELSE <<>>)
        \o
        (IF ~Truthy(Get(spec_, "info"))
         THEN << Finding("error", "API info object is missing", <<"info">>) >>
         ELSE <<>>)
        \o
        (IF ~Truthy(OptGet(Get(spec_, "info"), "title"))
         THEN << Finding("error", "API title is missing", <<"info", "title">>) >>
         ELSE <<>>))

\* lines 334-355: the two required-field checks
getSyntaxFindings(spec_) ==
    Arr(
        (IF ~Truthy(Get(spec_, "paths"))
         THEN << Finding("error", "API paths are missing", <<"paths">>) >>
         ELSE <<>>)
        \o
        (IF ~Truthy(Get(spec_, "info"))
         THEN << Finding("error", "API info object is missing", <<"info">>) >>
         ELSE <<>>))

\* a response under "200" or "201" that is null/undefined: reading its
\* examples throws
ExampleCheckThrowsIn(responses, codes) ==
    \E j \in 1..Len(codes) :
        codes[j] \in {"200", "201"} /\ IsNullish(Get(responses, codes[j]))

ExampleCheckThrows(responses) ==
    Truthy(responses) /\ ExampleCheckThrowsIn(responses, Keys(responses))

ExampleFindingOf_anyCode(code, response, ref) ==
    IF /\ ~IsNullish(response)
       /\ ~Truthy(Get(response, "examples"))
       /\ ~Truthy(Get(response, "example"))
    THEN << Finding("info",
                "Response " \o code \o " for " \o OperationName(ref)
                    \o " does not have examples",
                <<"paths", ref.path, ref.method, "responses", code>>) >>
    ELSE <<>>

\* (code === '200' || code === '201') && !response.examples && !response.example
ExampleFindingOf(code, response, ref) ==
    IF /\ code \in {"200", "201"}
       /\ ~Truthy(Get(response, "examples"))
       /\ ~Truthy(Get(response, "example"))
    THEN << Finding("info",
                "Response " \o code \o " for " \o OperationName(ref)
                    \o " does not have examples",
                <<"paths", ref.path, ref.method, "responses", code>>) >>
    ELSE <<>>

RECURSIVE ExampleFindingsOf(_, _, _, _)
ExampleFindingsOf(responses, codes, ref, j) ==
    IF j > Len(codes) THEN <<>>
    ELSE ExampleFindingOf(codes[j], Get(responses, codes[j]), ref)
         \o ExampleFindingsOf(responses, codes, ref, j + 1)

ExampleFindingsIn(responses, ref) ==
    IF Truthy(responses) THEN ExampleFindingsOf(responses, Keys(responses), ref, 1)
    ELSE <<>>

RECURSIVE BestPracticesFindingsFrom(_, _)
BestPracticesFindingsFrom(refs, i) ==
    IF i > Len(refs) THEN <<>>
    ELSE ExampleFindingsIn(Get(refs[i].operation, "responses"), refs[i])
         \o BestPracticesFindingsFrom(refs, i + 1)

BestPracticesFindingsThrow(refs) ==
    \/ SomeOperationNullish(refs)
    \/ \E i \in 1..Len(refs) : ExampleCheckThrows(Get(refs[i].operation, "responses"))

\* line 363: !spec.tags || spec.tags.length === 0
NoTags(tags) == ~Truthy(tags) \/ Get(tags, "length") = Num(0)

BestPracticesFindingsOver(tags, refs) ==
    IF BestPracticesFindingsThrow(refs) THEN TypeError
    ELSE Arr(
        (IF NoTags(tags)
         THEN << Finding("warning",
                     "API does not define tags for organizing operations",
                     <<"tags">>) >>
         ELSE <<>>)
        \o BestPracticesFindingsFrom(refs, 1))

getBestPracticesFindings(spec_) ==
    BestPracticesFindingsOver(Get(spec_, "tags"),
        OperationRefs(Or(Get(spec_, "paths"), Obj(<<>>))))

\* lines 416-421: the second copy of the loop over the servers
RECURSIVE FindingsHttpsInServers(_, _)
FindingsHttpsInServers(servers, i) ==
    IF i > Len(Keys(servers)) THEN "none"
    ELSE ElseRest(ServerIsHttps(Get(servers, Keys(servers)[i])),
                  FindingsHttpsInServers(servers, i + 1))

FindingsHttpsInIterable(servers) ==
    IF servers.t \in {"array", "string"} THEN FindingsHttpsInServers(servers, 1)
    ELSE "throw"

FindingsHasHttpsOver_schemesFallback(servers, host, schemes) ==
    IF LengthPositive(servers)
    THEN ElseRest(FindingsHttpsInIterable(servers), HttpsInSchemes(host, schemes))
    ELSE HttpsInSchemes(host, schemes)

\* lines 415-426: servers first, host and schemes only without servers
FindingsHasHttpsOver(servers, host, schemes) ==
    IF LengthPositive(servers) THEN FindingsHttpsInIterable(servers)
    ELSE HttpsInSchemes(host, schemes)

\* lines 413-426: the second copy of the HTTPS check
FindingsHasHttps(spec_) ==
    FindingsHasHttpsOver(Or(Get(spec_, "servers"), Arr(<<>>)), Get(spec_, "host"),
                         Or(Get(spec_, "schemes"), Arr(<<>>)))

SecurityFindingsOver(spec_, hasHttps, v3) ==
    IF hasHttps = "throw" THEN TypeError
    ELSE Arr(
        (IF /\ ~Truthy(Get(spec_, "securityDefinitions"))
            /\ ~Truthy(OptGet(Get(spec_, "components"), "securitySchemes"))
         THEN << Finding("warning", "API does not define any security schemes",
                     IF v3 THEN <<"components", "securitySchemes">>
                           ELSE <<"securityDefinitions">>) >>
         ELSE <<>>)
        \o
        (IF hasHttps # "found"
         THEN << Finding("warning", "API does not enforce HTTPS",
                     IF v3 THEN <<"servers">> ELSE <<"schemes">>) >>
         ELSE <<>>))

getSecurityFindings(spec_) ==
    SecurityFindingsOver(spec_, FindingsHasHttps(spec_), Truthy(Get(spec_, "openapi")))

Has4xx_or5xx(codes) ==
    \E j \in 1..Len(codes) : StartsWith(codes[j], "4") \/ StartsWith(codes[j], "5")

\* for (const code in operation.responses) if (code.startsWith('4')) ...
Has4xx(codes) == \E j \in 1..Len(codes) : StartsWith(codes[j], "4")

UsabilityFindingOf_nonEmptyOnly(ref, responses) ==
    IF Truthy(responses) /\ Keys(responses) # <<>> /\ ~Has4xx(Keys(responses))
    THEN << Finding("info",
                "Operation " \o OperationName(ref)
                    \o " does not define any 4xx error responses",
                <<"paths", ref.path, ref.method, "responses">>) >>
    ELSE <<>>

UsabilityFindingOf_anyErrorCode(ref, responses) ==
    IF Truthy(responses) /\ ~Has4xx_or5xx(Keys(responses))
    THEN << Finding("info",
                "Operation " \o OperationName(ref)
                    \o " does not define any 4xx error responses",
                <<"paths", ref.path, ref.method, "responses">>) >>
    ELSE <<>>

\* if (operation.responses) { ... if (!has4xx) findings.push(...) }
UsabilityFindingOf(ref, responses) ==
    IF Truthy(responses) /\ ~Has4xx(Keys(responses))
    THEN << Finding("info",
                "Operation " \o OperationName(ref)
                    \o " does not define any 4xx error responses",
                <<"paths", ref.path, ref.method, "responses">>) >>
    ELSE <<>>

RECURSIVE UsabilityFindingsFrom(_, _)
UsabilityFindingsFrom(refs, i) ==
    IF i > Len(refs) THEN <<>>
    ELSE UsabilityFindingOf(refs[i], Get(refs[i].operation, "responses"))
         \o UsabilityFindingsFrom(refs, i + 1)

UsabilityFindingsOver(refs) ==
    IF SomeOperationNullish(refs) THEN TypeError
    ELSE Arr(UsabilityFindingsFrom(refs, 1))

getUsabilityFindings(spec_) ==
    UsabilityFindingsOver(OperationRefs(Or(Get(spec_, "paths"), Obj(<<>>))))

-----------------------------------------------------------------------------
(* analyzeApiSpec *)

DocumentationWeight == Hundredths(30)
SyntaxWeight == Hundredths(20)
BestPracticesWeight == Hundredths(25)
SecurityWeight == Hundredths(15)
UsabilityWeight == Hundredths(10)

WeightedSum_swappedWeights(documentationScore, syntaxScore, bestPracticesScore, securityScore, usabilityScore) ==
    RSum(<< RMul(documentationScore, Hundredths(30)),
            RMul(syntaxScore, Hundredths(25)),
            RMul(bestPracticesScore, Hundredths(20)),
            RMul(securityScore, Hundredths(15)),
            RMul(usabilityScore, Hundredths(10)) >>)

\* lines 63-69: the weighted sum of the five local scores
WeightedSum(documentationScore, syntaxScore, bestPracticesScore, securityScore, usabilityScore) ==
    RSum(<< RMul(documentationScore, Hundredths(30)),
            RMul(syntaxScore, Hundredths(20)),
            RMul(bestPracticesScore, Hundredths(25)),
            RMul(securityScore, Hundredths(15)),
            RMul(usabilityScore, Hundredths(10)) >>)

SpecVersion_byKey(spec_) ==
    IF HasKey(spec_, "swagger")
    THEN "Swagger " \o JsString(Get(spec_, "swagger"))
    ELSE "OpenAPI " \o JsString(Get(spec_, "openapi"))

\* line 53
SpecVersion(spec_) ==
    IF Truthy(Get(spec_, "swagger"))
    THEN "Swagger " \o JsString(Get(spec_, "swagger"))
    ELSE "OpenAPI " \o JsString(Get(spec_, "openapi"))

Category(score, weight, findings) ==
    [score |-> score, weight |-> weight, findings |-> findings.v]

\* lines 56-60: the five local scores, in the order they are computed
Scores(spec_) ==
    [documentation |-> calculateDocumentationScore(spec_),
     syntax |-> calculateSyntaxScore(spec_),
     bestPractices |-> calculateBestPracticesScore(spec_),
     security |-> calculateSecurityScore(spec_),
     usability |-> calculateUsabilityScore(spec_)]

\* lines 78, 83, 88, 93, 98: the findings of the five categories
Findings(spec_) ==
    [documentation |-> getDocumentationFindings(spec_),
     syntax |-> getSyntaxFindings(spec_),
     bestPractices |-> getBestPracticesFindings(spec_),
     security |-> getSecurityFindings(spec_),
     usability |-> getUsabilityFindings(spec_)]

SomeThrow(parts) == \E c \in DOMAIN parts : IsThrow(parts[c])

\* lines 71-103: the returned object
AnalysisResult(fileName, specVersion, scores, findings, now) ==
    IF SomeThrow(scores) \/ SomeThrow(findings) THEN TypeError
    ELSE [fileName |-> fileName,
          specVersion |-> specVersion,
          scores |->
            [documentation |-> Category(scores.documentation, DocumentationWeight,
                                   findings.documentation),
             syntax |-> Category(scores.syntax, SyntaxWeight, findings.syntax),
             bestPractices |-> Category(scores.bestPractices, BestPracticesWeight,
                                   findings.bestPractices),
             security |-> Category(scores.security, SecurityWeight, findings.security),
             usability |-> Category(scores.usability, UsabilityWeight,
                              findings.usability)],
          overallScore |->
            Round2(WeightedSum(scores.documentation, scores.syntax,
                       scores.bestPractices, scores.security, scores.usability)),
          timestamp |-> now]

\* The report the returned promise resolves to, or the TypeError it is
\* rejected with.  now is the clock new Date() reads.
analyzeApiSpec(spec_, fileName, now) ==
    IF IsNullish(spec_) THEN TypeError
    ELSE AnalysisResult(fileName, SpecVersion(spec_), Scores(spec_), Findings(spec_), now)

\* the document after spec.paths = spec.paths || {}
SpecAfterAnalysis_defaultsPaths(spec_) ==
    IF spec_.t # "object" \/ Truthy(Get(spec_, "paths")) THEN spec_
    ELSE Obj(SelectSeq(spec_.v, LAMBDA e : e[1] # "paths")
             \o << <<"paths", Obj(<<>>)>> >>)

\* analyzeApiSpec and the functions it calls only read spec: the document
\* after a call is the document before it
SpecAfterAnalysis(spec_) == spec_

-----------------------------------------------------------------------------
(* Decoding: JSON.parse / yaml.load build objects, and an object lists its *)
(* integer-like keys first, in ascending numeric order, then its other     *)
(* keys in the order they were written.                                    *)

IsIndexKey(k) ==
    /\ Len(k) >= 1
    /\ AllDigits(k, 1, Len(k))
    /\ (Len(k) = 1 \/ CharAt(k, 1) # "0")

DigitValue(c) == (CHOOSE i \in 1..Len(Digits) : CharAt(Digits, i) = c) - 1

RECURSIVE KeyNumber(_)
KeyNumber(k) ==
    IF k = "" THEN 0
    ELSE 10 * KeyNumber(SubSeq(k, 1, Len(k) - 1)) + DigitValue(CharAt(k, Len(k)))

\* entry inserted into index-key entries sorted ascending
RECURSIVE InsertByNumber(_, _)
InsertByNumber(sorted, entry) ==
    IF sorted = <<>> THEN <<entry>>
    ELSE IF KeyNumber(entry[1]) < KeyNumber(Head(sorted)[1])
         THEN <<entry>> \o sorted
         ELSE <<Head(sorted)>> \o InsertByNumber(Tail(sorted), entry)

RECURSIVE SortByNumber(_)
SortByNumber(entries) ==
    IF entries = <<>> THEN <<>>
    ELSE InsertByNumber(SortByNumber(Tail(entries)), Head(entries))

OwnPropertyOrder_asWritten(entries) == entries

\* integer-like keys first, ascending, then the other keys as written
OwnPropertyOrder(entries) ==
    SortByNumber(SelectSeq(entries, LAMBDA e : IsIndexKey(e[1])))
    \o SelectSeq(entries, LAMBDA e : ~IsIndexKey(e[1]))

\* the value decoded from a document written with distinct keys
RECURSIVE Decode(_)
Decode(text) ==
    CASE text.t = "object" ->
            Obj(OwnPropertyOrder([i \in 1..Len(text.v) |->
                    <<text.v[i][1], Decode(text.v[i][2])>>]))
      [] text.t = "array" -> Arr([i \in 1..Len(text.v) |-> Decode(text.v[i])])
      [] OTHER -> text

-----------------------------------------------------------------------------
(* The documents the model analyses, as they are written in the upload.    *)

MaxPaths == 2       \* paths of a document
MaxCodes == 2       \* responses of an operation
MaxServers == 2     \* entries of servers
MaxCalls == 2       \* analyses of one document
MaxRequests == 2    \* uploads the route serves

\* an object of the entries whose value is not undefined (an absent key)
Fields(entries) == Obj(SelectSeq(entries, LAMBDA e : e[2] # Undefined))

\* the sequences of n entries of list, in the order of the list or in the
\* opposite order
MonotoneSeqs(list, n) ==
    {[i \in 1..n |-> list[p[i]]] :
        p \in {q \in [1..n -> 1..Len(list)] :
                  \/ \A i \in 1..(n - 1) : q[i] < q[i + 1]
                  \/ \A i \in 1..(n - 1) : q[i] > q[i + 1]}}

SwaggerValues == {Undefined, Str("2.0"), Str("1.2"), Str("")}

OpenapiValues == {Undefined, Str("3.0.1"), Str("3.0"), Num(3)}

InfoValues ==
    {Undefined, Null}
    \cup {Fields(<< <<"title", title>>, <<"description", description>>,
                    <<"version", version>> >>) :
            title \in {Undefined, Str(""), Str("Pet Store")},
            description \in {Undefined, Str("A store")},
            version \in {Undefined, Str("1.0.0")}}

TagsValues == {Undefined, Arr(<<>>), Arr(<< Obj(<< <<"name", Str("pets")>> >>) >>)}

\* documents that vary the root keys
RootDocuments ==
    {Fields(<< <<"swagger", swagger>>, <<"openapi", openapi>>, <<"info", info>>,
               <<"tags", tags>>, <<"paths", paths>> >>) :
        swagger \in SwaggerValues, openapi \in OpenapiValues, info \in InfoValues,
        tags \in TagsValues, paths \in {Undefined, Null, Obj(<<>>), Str("ab")}}

ServerValues ==
    {Null,
     Obj(<<>>),
     Obj(<< <<"url", Str("https://api.example.com")>> >>),
     Obj(<< <<"url", Str("http://api.example.com")>> >>),
     Obj(<< <<"url", Num(1)>> >>)}

ServersValues ==
    {Undefined}
    \cup UNION {{Arr(q) : q \in [1..n -> ServerValues]} : n \in 0..MaxServers}

\* <<host, schemes>>
HostValues ==
    {<<Undefined, Undefined>>,
     <<Str("api.example.com"), Undefined>>,
     <<Str("api.example.com"), Arr(<<Str("http")>>)>>,
     <<Str("api.example.com"), Arr(<<Str("http"), Str("https")>>)>>}

SchemesValues == {Undefined, Obj(<< <<"key", Obj(<<>>)>> >>)}

ComponentsValues ==
    {Undefined, Obj(<<>>),
     Obj(<< <<"securitySchemes", Obj(<< <<"key", Obj(<<>>)>> >>)>> >>)}

SecurityValues == {Undefined, Arr(<<>>), Arr(<< Obj(<< <<"key", Arr(<<>>)>> >>) >>)}

SecurityDocument(openapi, servers, host, definitions, components, security) ==
    Fields(<< <<"openapi", openapi>>, <<"servers", servers>>,
              <<"host", host[1]>>, <<"schemes", host[2]>>,
              <<"securityDefinitions", definitions>>,
              <<"components", components>>, <<"security", security>> >>)

\* documents that vary the keys the security checks read: the declarations
\* of schemes and requirements, and the servers and schemes
SecurityDocuments ==
    {SecurityDocument(openapi, servers, <<Undefined, Undefined>>,
                      definitions, components, security) :
        openapi \in {Undefined, Str("3.0.1")},
        servers \in {Undefined,
                     Arr(<< Obj(<< <<"url", Str("https://api.example.com")>> >>) >>)},
        definitions \in SchemesValues,
        components \in ComponentsValues,
        security \in SecurityValues}
    \cup
    {SecurityDocument(openapi, servers, host, Undefined, declared[1], declared[2]) :
        openapi \in {Undefined, Str("3.0.1")},
        servers \in ServersValues,
        host \in HostValues,
        declared \in {<<Undefined, Undefined>>,
                      <<Obj(<< <<"securitySchemes", Obj(<< <<"key", Obj(<<>>)>> >>)>> >>),
                        Arr(<< Obj(<< <<"key", Arr(<<>>)>> >>) >>)>>}}

Described == Obj(<< <<"description", Str("Not found")>> >>)

FullOperation ==
    Obj(<< <<"description", Str("Lists the pets")>>,
           <<"operationId", Str("listPets")>>,
           <<"parameters", Arr(<< Obj(<< <<"name", Str("limit")>> >>) >>)>>,
           <<"responses",
             Obj(<< <<"404", Obj(<<>>)>>,
                    <<"200", Obj(<< <<"description", Str("OK")>>,
                                    <<"examples", Obj(<<>>)>> >>)>> >>)>> >>)

ServerErrorOperation ==
    Obj(<< <<"summary", Str("Adds a pet")>>,
           <<"responses",
             Obj(<< <<"500", Described>>, <<"200", Obj(<<>>)>> >>)>> >>)

CoreOperations == {Obj(<<>>), FullOperation, ServerErrorOperation}

\* the keys of a path item, in the order they are written
MethodLayouts == {<<>>, <<"get">>, <<"get", "post">>, <<"parameters", "get">>}

PathItems ==
    UNION {{Obj([i \in 1..Len(layout) |->
                    <<layout[i],
                      IF layout[i] = "parameters" THEN Arr(<<>>) ELSE f[i]>>]) :
                f \in [1..Len(layout) -> CoreOperations]} :
           layout \in MethodLayouts}

PathName(i) == "/p" \o ToString(i)

\* path items with the one method get
GetPathItems == {Obj(<< <<"get", operation>> >>) : operation \in CoreOperations}

\* the first path takes any path item, the paths after it one with get only
PathsValues ==
    UNION {{Obj([i \in 1..n |-> <<PathName(i), f[i]>>]) :
                f \in {g \in [1..n -> PathItems] :
                          \A i \in 2..n : g[i] \in GetPathItems}} :
           n \in 0..MaxPaths}

FullInfo ==
    Obj(<< <<"title", Str("Pet Store")>>, <<"description", Str("A store")>>,
           <<"version", Str("1.0.0")>> >>)

\* documents that vary the paths and the operations under them
PathsDocuments ==
    {Obj(<< <<"openapi", Str("3.0.1")>>, <<"info", FullInfo>>, <<"paths", paths>> >>) :
        paths \in PathsValues}

ResponseValues ==
    {Null,
     Obj(<<>>),
     Described,
     Obj(<< <<"examples", Obj(<<>>)>> >>),
     Obj(<< <<"description", Str("OK")>>, <<"example", Str("rex")>> >>)}

StatusCodes == <<"200", "201", "404", "500">>

ResponsesValues ==
    UNION {{Obj([i \in 1..n |-> <<codes[i], f[i]>>]) :
                codes \in MonotoneSeqs(StatusCodes, n), f \in [1..n -> ResponseValues]} :
           n \in 0..MaxCodes}

OperationValues ==
    {Null, Str("get")}
    \cup {Fields(<< <<"description", description>>, <<"summary", summary>>,
                    <<"operationId", operationId>>, <<"parameters", parameters>>,
                    <<"responses", responses>> >>) :
            description \in {Undefined, Str("Lists the pets")},
            summary \in {Undefined, Str("List")},
            operationId \in {Undefined, Str("listPets")},
            parameters \in {Undefined, Arr(<<>>),
                            Arr(<< Obj(<< <<"name", Str("limit")>> >>) >>)},
            responses \in {Undefined, Obj(<<>>), Obj(<< <<"200", Obj(<<>>)>> >>)}}
    \cup {Obj(<< <<"responses", responses>> >>) : responses \in ResponsesValues}

\* documents with one operation
OperationDocuments ==
    {Obj(<< <<"openapi", Str("3.0.1")>>,
            <<"info", Obj(<< <<"title", Str("Pet Store")>> >>)>>,
            <<"paths", Obj(<< <<"/pets", Obj(<< <<"get", operation>> >>)>> >>)>> >>) :
        operation \in OperationValues}

\* documents whose tags are one map instead of a sequence of maps
KeyedTagsDocuments ==
    {Fields(<< <<"openapi", Str("3.0.1")>>, <<"info", info>>,
               <<"tags", Obj(<< <<"name", Str("pets")>> >>)>>,
               <<"paths", Obj(<<>>)>> >>) :
        info \in {Undefined, FullInfo}}

\* documents with tags and one operation
TaggedDocuments ==
    {Obj(<< <<"openapi", Str("3.0.1")>>, <<"info", FullInfo>>,
            <<"tags", Arr(<< Obj(<< <<"name", Str("pets")>> >>) >>)>>,
            <<"paths", Obj(<< <<"/pets", Obj(<< <<"get", operation>> >>)>> >>)>> >>) :
        operation \in CoreOperations}

\* a document whose second path is written as a number
NumberedPathDocuments ==
    {Obj(<< <<"openapi", Str("3.0.1")>>, <<"info", FullInfo>>,
            <<"paths", Obj(<< <<"/pets", Obj(<< <<"get", Obj(<<>>)>> >>)>>,
                              <<"7", Obj(<< <<"get", Obj(<<>>)>> >>)>> >>)>> >>)}

Documents ==
    RootDocuments \cup SecurityDocuments \cup PathsDocuments \cup OperationDocuments
        \cup KeyedTagsDocuments \cup TaggedDocuments \cup NumberedPathDocuments

\* a document analysed between two analyses of spec
OtherDocument ==
    Decode(Obj(<< <<"swagger", Str("2.0")>>,
                  <<"paths", Obj(<< <<"/other", Obj(<< <<"get", FullOperation>> >>)>> >>)>> >>))

FileName == "openapi.json"

-----------------------------------------------------------------------------
(* The scorer applied to a document *)

NoResponse == [status |-> 0, body |-> "none"]

\* no request in progress, none served yet
Idle == [pc |-> "idle", served |-> 0, request |-> "none", response |-> NoResponse,
         last |-> "none"]

EmptyFs == [dirs |-> {}, files |-> {}]

\* no GET request was served yet
NoRetrieval == [id |-> 0, after |-> 0, response |-> "none"]

\* page.tsx lines 10-14: the state of the upload page when it is mounted;
\* interval tells whether the progress timer is set, request is the state of
\* the fetch of handleSubmit, submissions counts the calls that passed line 62
InitialPage ==
    [file |-> "none", uploadProgress |-> 0, isUploading |-> FALSE,
     error |-> "null", interval |-> FALSE, request |-> "none",
     redirect |-> FALSE, submissions |-> 0]

Init ==
    /\ source \in Documents
    /\ spec = Decode(source)
    /\ reports = <<>>
    /\ clock = 0
    /\ upload = Idle
    /\ fs = EmptyFs
    /\ analysisResults = {}
    /\ retrieved = NoRetrieval
    /\ page = InitialPage

CallsOf(which) == Count({i \in 1..Len(reports) : reports[i].of = which})

\* one call of analyzeApiSpec, as the log of calls records it
Call(which, arg, fileName, now) ==
    [of |-> which, arg |-> arg, result |-> analyzeApiSpec(arg, fileName, now)]

\* await analyzeApiSpec(spec, fileName)
Analyze ==
    /\ CallsOf("spec") < MaxCalls
    /\ reports' = Append(reports, Call("spec", spec, FileName, clock))
    /\ spec' = SpecAfterAnalysis(spec)
    /\ clock' = clock + 1
    /\ UNCHANGED <<source, upload, fs, analysisResults, retrieved, page>>

\* an analysis of another document between two analyses of spec
AnalyzeOther ==
    /\ Len(reports) >= 1
    /\ reports[Len(reports)].of = "spec"
    /\ CallsOf("spec") < MaxCalls
    /\ reports' = Append(reports, Call("other", OtherDocument, FileName, clock))
    /\ clock' = clock + 1
    /\ UNCHANGED <<source, spec, upload, fs, analysisResults, retrieved, page>>

Next == Analyze \/ AnalyzeOther

Spec == Init /\ [][Next]_vars
-----------------------------------------------------------------------------
(* The upload route, POST /api/analyze.  An uploaded text is what a decoder *)
(* makes of it: garbage, that neither decoder accepts; the empty text, that *)
(* JSON.parse rejects and yaml.load decodes to undefined; JSON; or YAML     *)
(* that is no JSON.  A JAR is a zip archive of named entries.               *)

Garbage == [kind |-> "garbage", value |-> Undefined]
EmptyText == [kind |-> "empty", value |-> Undefined]
JsonText(value) == [kind |-> "json", value |-> value]
YamlText(value) == [kind |-> "yaml", value |-> value]
Zip(entries) == [kind |-> "zip", value |-> entries]

SyntaxError == [t |-> "SyntaxError", v |-> 0]

\* JSON.parse(content)
JsonParse(content) ==
    IF content.kind = "json" THEN Decode(content.value) ELSE SyntaxError

\* yaml.load(content): YAML reads JSON too, and an empty text is undefined
YamlLoad(content) ==
    CASE content.kind \in {"json", "yaml"} -> Decode(content.value)
      [] content.kind = "empty" -> Undefined
      [] OTHER -> SyntaxError

\* lines 105-110
ParseSpec(apiSpec) ==
    IF apiSpec.format = "json" THEN JsonParse(apiSpec.content)
    ELSE YamlLoad(apiSpec.content)

TitledDocument ==
    Obj(<< <<"swagger", Str("2.0")>>,
           <<"info", Obj(<< <<"title", Str("Pet Store")>> >>)>> >>)

PetsDocument ==
    Obj(<< <<"openapi", Str("3.0.1")>>, <<"info", FullInfo>>,
           <<"paths", Obj(<< <<"/pets", Obj(<< <<"get", FullOperation>> >>)>> >>)>> >>)

NullOperationDocument ==
    Obj(<< <<"openapi", Str("3.0.1")>>,
           <<"paths", Obj(<< <<"/pets", Obj(<< <<"get", Null>> >>)>> >>)>> >>)

UploadedTexts ==
    {Garbage, EmptyText, YamlText(TitledDocument)}
    \cup {JsonText(value) :
            value \in {Null, Arr(<<>>), Num(5), Str("openapi"), Obj(<<>>),
                       PetsDocument, NullOperationDocument}}

JarEntry(entryName, content) == [entryName |-> entryName, content |-> content]

UploadedJars ==
    {Garbage,
     Zip(<<>>),
     Zip(<< JarEntry("META-INF/MANIFEST.MF", Garbage) >>),
     Zip(<< JarEntry("BOOT-INF/classes/api-docs/openapi.json", JsonText(PetsDocument)) >>),
     Zip(<< JarEntry("api-docs/v2/swagger.yaml", YamlText(TitledDocument)),
            JarEntry("api-docs/v3/openapi.json", JsonText(Null)) >>)}

File(name, content) == [name |-> name, content |-> content]

NoFile == [name |-> "", content |-> Garbage]

UploadedFiles ==
    {NoFile}
    \cup {File(name, content) :
            name \in {"api.json", "API.YAML"}, content \in UploadedTexts}
    \cup {File("api.yml", YamlText(TitledDocument)),
          File("notes.txt", JsonText(PetsDocument))}
    \cup {File("app.jar", content) : content \in UploadedJars}

Response(status, body) == [status |-> status, body |-> body]

\* lines 50-53: the entries of the archive the route extracts
IsSpecEntry(entry) ==
    /\ StringIncludes(entry.entryName, "api-docs")
    /\ \/ EndsWith(entry.entryName, ".json")
       \/ EndsWith(entry.entryName, ".yaml")
       \/ EndsWith(entry.entryName, ".yml")

\* lines 56-60
ExtractedSpec(entry) ==
    [name |-> entry.entryName, content |-> entry.content,
     format |-> IF EndsWith(entry.entryName, ".json") THEN "json" ELSE "yaml"]

\* writeFile(path.join(uploadDir, name), content)
WriteFile(files, dir, name, content) ==
    {f \in files : ~(f.dir = dir /\ f.name = name)}
    \cup {[dir |-> dir, name |-> name, content |-> content]}

RECURSIVE WriteExtracted(_, _, _, _)
\* the files after the first k extracted specs are written
WriteExtracted(files, dir, specs, k) ==
    IF k = 0 THEN files
    ELSE WriteFile(WriteExtracted(files, dir, specs, k - 1), dir,
                   BaseName(specs[k].name), specs[k].content)

\* the request ends with this response; its locals are gone
Respond(response, decoded, calls) ==
    [pc |-> "idle", served |-> upload.served + 1, request |-> "none",
     response |-> response,
     last |-> [decoded |-> decoded, calls |-> calls]]

InitUpload ==
    /\ source = Obj(<<>>)
    /\ spec = Obj(<<>>)
    /\ reports = <<>>
    /\ clock = 0
    /\ upload = Idle
    /\ fs = EmptyFs
    /\ analysisResults = {}
    /\ retrieved = NoRetrieval
    /\ page = InitialPage

\* lines 16-32: the form is read, the analysis gets its id and its directory
PostReceive(file, mkdirOk) ==
    /\ upload.pc = "idle"
    /\ upload.served < MaxRequests
    /\ IF file = NoFile
       THEN /\ upload' = Respond(Response(400, "No file provided"), "none", 0)
            /\ UNCHANGED fs
       ELSE IF mkdirOk
       THEN /\ fs' = [fs EXCEPT !.dirs = @ \cup {upload.served + 1}]
            /\ upload' = [upload EXCEPT !.pc = "made",
                            !.request = [file |-> file, analysisId |-> upload.served + 1]]
       ELSE /\ upload' = Respond(Response(500, "Failed to process the file"), "none", 0)
            /\ UNCHANGED fs
    /\ UNCHANGED <<source, spec, reports, clock, analysisResults, retrieved, page>>

\* lines 34-101: the upload, or the specs of the archive, are written to the
\* directory; written counts the writes that succeed before one fails
PostStore(written) ==
    /\ upload.pc = "made"
    /\ LET file == upload.request.file
           dir == upload.request.analysisId
           fileExtension == ToLowerCase(ExtName(file.name))
           entries == IF file.content.kind = "zip" THEN file.content.value ELSE <<>>
           extractedSpecs ==
               [i \in 1..Len(SelectSeq(entries, IsSpecEntry)) |->
                   ExtractedSpec(SelectSeq(entries, IsSpecEntry)[i])]
           failed == Respond(Response(500, "Failed to process the file"), "none", 0)
       IN  CASE fileExtension = ".jar" ->
                  IF file.content.kind # "zip"
                  THEN written = 0 /\ upload' = failed /\ UNCHANGED fs
                  ELSE /\ written <= Len(extractedSpecs)
                       /\ fs' = [fs EXCEPT !.files =
                                    WriteExtracted(@, dir, extractedSpecs, written)]
                       /\ upload' =
                            IF written < Len(extractedSpecs) THEN failed
                            ELSE IF Len(extractedSpecs) = 0
                            THEN Respond(Response(400,
                                    "No API specification files found in the JAR file"),
                                    "none", 0)
                            ELSE [upload EXCEPT !.pc = "stored",
                                    !.request = [file |-> file, analysisId |-> dir,
                                                 apiSpec |-> extractedSpecs[1],
                                                 extractedSpecs |-> extractedSpecs]]
             [] fileExtension \in {".json", ".yaml", ".yml"} ->
                  /\ written <= 1
                  /\ IF written = 1
                     THEN /\ fs' = [fs EXCEPT !.files =
                                       WriteFile(@, dir, file.name, file.content)]
                          /\ upload' = [upload EXCEPT !.pc = "stored",
                                !.request = [file |-> file, analysisId |-> dir,
                                    apiSpec |-> [name |-> file.name,
                                                 content |-> file.content,
                                                 format |-> IF fileExtension = ".json"
                                                            THEN "json" ELSE "yaml"],
                                    extractedSpecs |-> <<>>]]
                     ELSE upload' = failed /\ UNCHANGED fs
             [] OTHER ->
                  /\ written = 0
                  /\ upload' = Respond(Response(400, "Unsupported file format"), "none", 0)
                  /\ UNCHANGED fs
    /\ UNCHANGED <<source, spec, reports, clock, analysisResults, retrieved, page>>

\* lines 103-128: the spec is decoded and analysed, the result is put in the
\* Map
PostAnalyze ==
    /\ upload.pc = "stored"
    /\ LET request == upload.request
           parsedSpec == ParseSpec(request.apiSpec)
           call == Call("upload", parsedSpec, request.apiSpec.name, clock)
       IN  IF parsedSpec = SyntaxError
           THEN /\ upload' = Respond(Response(400,
                        "Failed to parse API specification. Invalid format."), "failed", 0)
                /\ UNCHANGED <<reports, clock, analysisResults>>
           ELSE /\ reports' = Append(reports, call)
                /\ clock' = clock + 1
                /\ IF IsThrow(call.result)
                   THEN /\ upload' = Respond(Response(500, "Failed to process the file"),
                                             "ok", 1)
                        /\ UNCHANGED analysisResults
                   ELSE /\ analysisResults' =
                             analysisResults \cup
                             {[analysisId |-> request.analysisId,
                               result |-> call.result,
                               spec |-> parsedSpec,
                               originalSpec |-> request.apiSpec,
                               extractedSpecs |-> request.extractedSpecs]}
                        /\ upload' = [upload EXCEPT !.pc = "analyzed"]
    /\ UNCHANGED <<source, spec, fs, retrieved, page>>

\* JSON.stringify(resultData, null, 2)
ResultText(data) ==
    JsonText([result |-> data.result, spec |-> data.spec,
              originalSpec |-> data.originalSpec,
              extractedSpecs |-> data.extractedSpecs])

\* lines 130-148: the result is saved for the GET route; a failed write is
\* logged and the id is returned all the same
PostSave(saved) ==
    /\ upload.pc = "analyzed"
    /\ LET id == upload.request.analysisId
           data == CHOOSE d \in analysisResults : d.analysisId = id
       IN  /\ fs' = IF saved
                    THEN [fs EXCEPT !.files =
                            WriteFile(@, id, "analysis-result.json", ResultText(data))]
                    ELSE fs
           /\ upload' = Respond(Response(200, [analysisId |-> id]), "ok", 1)
    /\ UNCHANGED <<source, spec, reports, clock, analysisResults, retrieved, page>>

\* [id]/route.ts lines 10-42, GET /api/analyze/[id]: only the file
\* analysis-result.json of the directory is read, never the Map; a file that
\* is missing or is not JSON is answered with 404. after is the number of POST
\* requests that were answered when this request was served
GetAnalysis(id) ==
    /\ retrieved' =
          [id |-> id, after |-> upload.served,
           response |->
             IF \E f \in fs.files : /\ f.dir = id
                                    /\ f.name = "analysis-result.json"
                                    /\ f.content.kind = "json"
             THEN Response(200,
                    (CHOOSE f \in fs.files :
                        f.dir = id /\ f.name = "analysis-result.json").content.value)
             ELSE Response(404, "Analysis not found")]
    /\ UNCHANGED <<source, spec, reports, clock, upload, fs, analysisResults, page>>

NextUpload ==
    \/ \E file \in UploadedFiles : \E mkdirOk \in BOOLEAN : PostReceive(file, mkdirOk)
    \/ \E written \in 0..2 : PostStore(written)
    \/ PostAnalyze
    \/ \E saved \in BOOLEAN : PostSave(saved)
    \/ \E id \in 1..MaxRequests : GetAnalysis(id)

SpecUpload == InitUpload /\ [][NextUpload]_vars

-----------------------------------------------------------------------------
\* The upload page (src/app/upload/page.tsx)

\* the submissions of one visit of the page
MaxSubmissions == 2

DroppedFiles == {"api.json", "API.YAML", ".yml", "notes.txt", "README"}

\* the messages of the errors a failed fetch or a failed response.json()
\* is rejected with; line 104 shows error.message
RejectionMessages == {"Failed to fetch", "Unexpected token < in JSON"}

\* lines 25-54, handleDrop and handleFileChange: validateAndSetFile; the
\* input is disabled while uploading (line 146), the drop zone is not.
\* Lines 46-48: file.name.substring(file.name.lastIndexOf('.')).toLowerCase()
\* is one of the valid extensions
ValidateAndSetFile(name) ==
    /\ page' = IF ToLowerCase(IF LastIndexOf(name, ".") = 0 THEN name
                              ELSE SubSeq(name, LastIndexOf(name, "."), Len(name)))
                    \in {".json", ".yaml", ".yml", ".jar"}
               THEN [page EXCEPT !.error = "null", !.file = name]
               ELSE [page EXCEPT !.error =
                        "Please upload a valid API specification file (JSON, YAML) or a JAR file."]
    /\ UNCHANGED <<source, spec, reports, clock, upload, fs, analysisResults, retrieved>>

\* lines 164-172: the Remove button, shown while nothing is uploading
RemoveFile ==
    /\ page.file # "none"
    /\ ~page.isUploading
    /\ page' = [page EXCEPT !.file = "none"]
    /\ UNCHANGED <<source, spec, reports, clock, upload, fs, analysisResults, retrieved>>

\* the progress timer's callback, lines 68-76: every 100 ms while the
\* interval is set
Tick_neverStops ==
    /\ page.interval
    /\ page' = [page EXCEPT !.uploadProgress = @ + 5]
    /\ UNCHANGED <<source, spec, reports, clock, upload, fs, analysisResults, retrieved>>

Tick ==
    /\ page.interval
    /\ page' = IF page.uploadProgress >= 95
               THEN [page EXCEPT !.interval = FALSE]
               ELSE [page EXCEPT !.uploadProgress = @ + 5]
    /\ UNCHANGED <<source, spec, reports, clock, upload, fs, analysisResults, retrieved>>

\* lines 56-90, handleSubmit up to its first await: the submit button is
\* disabled while uploading (line 212)
HandleSubmit ==
    /\ ~page.isUploading
    /\ page.submissions < MaxSubmissions
    /\ page' = IF page.file = "none"
               THEN [page EXCEPT !.error = "Please select a file to upload."]
               ELSE [page EXCEPT !.isUploading = TRUE, !.uploadProgress = 0,
                                 !.interval = TRUE, !.request = "pending",
                                 !.submissions = @ + 1]
    /\ UNCHANGED <<source, spec, reports, clock, upload, fs, analysisResults, retrieved>>

\* lines 89-97: the response arrived; ok is response.ok
FetchResolved(ok) ==
    /\ page.request = "pending"
    /\ page' = IF ok
               THEN [page EXCEPT !.interval = FALSE, !.uploadProgress = 100,
                                 !.request = "json"]
               ELSE [page EXCEPT !.interval = FALSE, !.isUploading = FALSE,
                                 !.request = "none",
                                 !.error = "Failed to upload and analyze the file."]
    /\ UNCHANGED <<source, spec, reports, clock, upload, fs, analysisResults, retrieved>>

\* lines 85-88, 102-106: fetch is rejected (the network failed)
FetchRejected(message) ==
    /\ page.request = "pending"
    /\ page' = [page EXCEPT !.interval = FALSE, !.isUploading = FALSE,
                            !.request = "none", !.error = message]
    /\ UNCHANGED <<source, spec, reports, clock, upload, fs, analysisResults, retrieved>>

\* lines 97-102: the body of the OK response was read; the redirect is set
JsonResolved ==
    /\ page.request = "json"
    /\ page' = [page EXCEPT !.request = "none", !.redirect = TRUE]
    /\ UNCHANGED <<source, spec, reports, clock, upload, fs, analysisResults, retrieved>>

\* lines 97, 102-106: the body of the OK response is not JSON
JsonRejected(message) ==
    /\ page.request = "json"
    /\ page' = [page EXCEPT !.interval = FALSE, !.isUploading = FALSE,
                            !.request = "none", !.error = message]
    /\ UNCHANGED <<source, spec, reports, clock, upload, fs, analysisResults, retrieved>>

NextPage ==
    \/ \E name \in DroppedFiles : ValidateAndSetFile(name)
    \/ RemoveFile
    \/ HandleSubmit
    \/ Tick
    \/ \E ok \in BOOLEAN : FetchResolved(ok)
    \/ \E message \in RejectionMessages : FetchRejected(message)
    \/ JsonResolved
    \/ \E message \in RejectionMessages : JsonRejected(message)

\* the page is mounted while the server has served nothing yet
SpecPage == InitUpload /\ [][NextPage]_vars

-----------------------------------------------------------------------------
(* Properties of the scorer, checked under Spec *)

\* the calls that returned a report
Returned == {i \in 1..Len(reports) : ~IsThrow(reports[i].result)}

ScoresOf(report) ==
    <<report.scores.documentation.score, report.scores.syntax.score,
      report.scores.bestPractices.score, report.scores.security.score,
      report.scores.usability.score>>

InUnitInterval(x) == RLe(Zero, x) /\ RLe(x, One)

HasFinding(findings, severity, message) ==
    \E k \in 1..Len(findings) :
        findings[k].severity = severity /\ findings[k].message = message

\* the weighted sum of the scores stored in the report, with the weights of
\* the specification
StoredWeightedSum(report) ==
    RSum(<< RMul(report.scores.documentation.score, Rat(30, 100)),
            RMul(report.scores.syntax.score, Rat(20, 100)),
            RMul(report.scores.bestPractices.score, Rat(25, 100)),
            RMul(report.scores.security.score, Rat(15, 100)),
            RMul(report.scores.usability.score, Rat(10, 100)) >>)

\* C1: in every report, overallScore is the sum documentation*0.30 +
\* syntax*0.20 + bestPractices*0.25 + security*0.15 + usability*0.10 of the
\* scores stored in that report, rounded to 2 decimals; the five stored
\* weights are these constants and sum to 1; overallScore lies in [0,1].
C1_OverallIsRoundedWeightedSum ==
    \A i \in Returned :
        LET report == reports[i].result
        IN  /\ report.scores.documentation.weight = Rat(30, 100)
            /\ report.scores.syntax.weight = Rat(20, 100)
            /\ report.scores.bestPractices.weight = Rat(25, 100)
            /\ report.scores.security.weight = Rat(15, 100)
            /\ report.scores.usability.weight = Rat(10, 100)
            /\ RSum(<< report.scores.documentation.weight,
                       report.scores.syntax.weight,
                       report.scores.bestPractices.weight,
                       report.scores.security.weight,
                       report.scores.usability.weight >>) = One
            /\ report.overallScore = Round2(StoredWeightedSum(report))
            /\ InUnitInterval(report.overallScore)

\* a report whose weighted sum has more than 2 decimals, so that the
\* rounding changes it, with five different category scores behind it
C1_Witness ==
    \E i \in Returned :
        LET report == reports[i].result
        IN  /\ report.overallScore # StoredWeightedSum(report)
            /\ Cardinality({ScoresOf(report)[k] : k \in 1..5}) = 5

\* C2: in every report (the empty document and documents with several
\* methods under one path included) each of the five category scores lies
\* in [0,1].
C2_ScoresInUnitInterval ==
    \A i \in Returned : \A k \in 1..5 : InUnitInterval(ScoresOf(reports[i].result)[k])

\* a report of a document with several methods under one path, whose
\* documentation terms add up to more than 1
C2_Witness ==
    \E i \in Returned :
        LET paths == Get(reports[i].arg, "paths")
        IN  /\ Truthy(paths)
            /\ Len(OperationRefs(paths)) > Len(Keys(paths))
            /\ ~RLe(DocumentationSum(reports[i].arg), One)
            /\ reports[i].result.scores.documentation.score = One

\* C3 (as claimed): analyzeApiSpec returns a report for every map-rooted
\* document, whatever the shape of the values under its keys.
C3_NeverThrows ==
    \A i \in 1..Len(reports) :
        reports[i].arg.t = "object" => ~IsThrow(reports[i].result)

WithoutTimestamp(result) ==
    IF IsThrow(result) THEN result
    ELSE [fileName |-> result.fileName, specVersion |-> result.specVersion,
          scores |-> result.scores, overallScore |-> result.overallScore]

C5_ConstantFloors ==
    \A i \in Returned :
        /\ RLe(Rat(5, 10), reports[i].result.scores.bestPractices.score)
        /\ RLe(Rat(7, 10), reports[i].result.scores.usability.score)

\* a report of a document with operations that sits on both floors
C5_Witness ==
    \E i \in Returned :
        /\ reports[i].result.scores.bestPractices.score = Rat(5, 10)
        /\ reports[i].result.scores.usability.score = Rat(7, 10)
        /\ Truthy(Get(reports[i].arg, "paths"))
        /\ Len(OperationRefs(Get(reports[i].arg, "paths"))) > 0

OfEmptyDocument(i) == reports[i].arg = Obj(<<>>)

BothSyntaxFindings(report) ==
    /\ HasFinding(report.scores.syntax.findings, "error", "API paths are missing")
    /\ HasFinding(report.scores.syntax.findings, "error", "API info object is missing")

\* C6 (as claimed): the report of the empty document has syntax score 0.4
\* and both syntax errors.
C6_EmptyDocumentSyntax04 ==
    \A i \in Returned :
        OfEmptyDocument(i) =>
            /\ reports[i].result.scores.syntax.score = Rat(4, 10)
            /\ BothSyntaxFindings(reports[i].result)

\* C6 (amended): the report of the empty document has syntax score 0.3
\* (0.8 - 0.2 for paths - 0.2 for info - 0.1 for info.title) and both syntax
\* errors, 'API paths are missing' and 'API info object is missing'.
C6_EmptyDocumentSyntax03 ==
    \A i \in Returned :
        OfEmptyDocument(i) =>
            /\ reports[i].result.scores.syntax.score = Rat(3, 10)
            /\ BothSyntaxFindings(reports[i].result)

C6_Witness == \E i \in Returned : OfEmptyDocument(i)

\* swagger "2.0", info holding a title and nothing else, no other root key
SwaggerTitleOnly(doc) ==
    /\ doc.t = "object"
    /\ {doc.v[k][1] : k \in 1..Len(doc.v)} = {"swagger", "info"}
    /\ Get(doc, "swagger") = Str("2.0")
    /\ Get(doc, "info").t = "object"
    /\ Keys(Get(doc, "info")) = <<"title">>
    /\ Get(Get(doc, "info"), "title").t = "string"
    /\ Get(Get(doc, "info"), "title").v # ""

\* C7: the report of a document with swagger "2.0", an info that holds
\* only a (non-empty) title, and no paths has syntax score 0.6 and
\* documentation score 0.1.
C7_SwaggerTitleOnly ==
    \A i \in Returned :
        SwaggerTitleOnly(reports[i].arg) =>
            /\ reports[i].result.scores.syntax.score = Rat(6, 10)
            /\ reports[i].result.scores.documentation.score = Rat(1, 10)

C7_Witness == \E i \in Returned : SwaggerTitleOnly(reports[i].arg)

IsHttpsServer(server) ==
    /\ server.t = "object"
    /\ Get(server, "url").t = "string"
    /\ StartsWith(Get(server, "url").v, "https://")

\* an openapi key, a non-empty servers sequence with an https:// url, a
\* components.securitySchemes map and a non-empty root security sequence
FullySecured(doc) ==
    /\ doc.t = "object"
    /\ HasKey(doc, "openapi")
    /\ Get(doc, "servers").t = "array"
    /\ \E k \in 1..Len(Get(doc, "servers").v) : IsHttpsServer(Get(doc, "servers").v[k])
    /\ Get(doc, "components").t = "object"
    /\ Get(Get(doc, "components"), "securitySchemes").t = "object"
    /\ Get(doc, "security").t = "array"
    /\ Len(Get(doc, "security").v) > 0

\* C8: the report of a document with an openapi key, a non-empty servers
\* sequence with at least one https:// url, components.securitySchemes and a
\* non-empty root security has security score 1 and no security finding.
C8_FullySecured ==
    \A i \in Returned :
        FullySecured(reports[i].arg) =>
            /\ reports[i].result.scores.security.score = One
            /\ reports[i].result.scores.security.findings = <<>>

\* such a report, where the https:// server is not the first server and
\* the v2 keys host and schemes are there too
C8_Witness ==
    \E i \in Returned :
        /\ FullySecured(reports[i].arg)
        /\ ~IsHttpsServer(Get(reports[i].arg, "servers").v[1])
        /\ HasKey(reports[i].arg, "host")

Missing4xxFindings(report, ref) ==
    {k \in 1..Len(report.scores.usability.findings) :
        LET finding == report.scores.usability.findings[k]
        IN  /\ finding.severity = "info"
            /\ finding.path = <<"paths", ref.path, ref.method, "responses">>
            /\ finding.message = "Operation " \o ToUpperCase(ref.method) \o " "
                    \o ref.path \o " does not define any 4xx error responses"}

No4xxCode(responses) ==
    responses.t = "object"
    /\ \A k \in 1..Len(responses.v) : CharAt(responses.v[k][1], 1) # "4"

OperationsOf(doc) ==
    IF Truthy(Get(doc, "paths")) THEN OperationRefs(Get(doc, "paths")) ELSE <<>>

\* C9: in every report, an operation (a path x method other than
\* `parameters`) has the info finding 'does not define any 4xx error
\* responses' exactly when it has a responses map and no status code in it
\* starts with "4"; it then has one such finding, and the usability
\* findings hold nothing else.  An operation with a 4xx code has none,
\* with or without a description under that code.
C9_Missing4xxFindings ==
    \A i \in Returned :
        LET report == reports[i].result
            refs == OperationsOf(reports[i].arg)
        IN  /\ \A k \in 1..Len(refs) :
                  Cardinality(Missing4xxFindings(report, refs[k])) =
                      IF No4xxCode(Get(refs[k].operation, "responses")) THEN 1 ELSE 0
            /\ \A k \in 1..Len(report.scores.usability.findings) :
                  \E m \in 1..Len(refs) : k \in Missing4xxFindings(report, refs[m])

\* responses of ref hold a 404 without a description and ref has no finding
Bare404NoFinding(report, ref) ==
    /\ Get(ref.operation, "responses").t = "object"
    /\ Get(Get(ref.operation, "responses"), "404") = Obj(<<>>)
    /\ Missing4xxFindings(report, ref) = {}

\* responses of ref hold codes, a 5xx among them and no 4xx, and ref has
\* its finding
Only5xxOneFinding(report, ref) ==
    /\ No4xxCode(Get(ref.operation, "responses"))
    /\ HasKey(Get(ref.operation, "responses"), "500")
    /\ Cardinality(Missing4xxFindings(report, ref)) = 1

\* a report with an operation whose 404 response has no description and
\* that has no finding, beside an operation with a 5xx code and no 4xx code
\* that has one
C9_Witness ==
    \E i \in Returned :
        /\ \E k \in 1..Len(OperationsOf(reports[i].arg)) :
              Bare404NoFinding(reports[i].result, OperationsOf(reports[i].arg)[k])
        /\ \E k \in 1..Len(OperationsOf(reports[i].arg)) :
              Only5xxOneFinding(reports[i].result, OperationsOf(reports[i].arg)[k])

-----------------------------------------------------------------------------
(* Properties of the upload route, checked under SpecUpload *)

\* the calls of analyzeApiSpec the upload route made
UploadCalls == {i \in 1..Len(reports) : reports[i].of = "upload"}

\* C10 (as claimed): the upload route calls analyzeApiSpec only with a
\* decoded value whose root is a map; a request whose JSON/YAML decoding
\* failed ends with status 400 without a call.
C10_OnlyDecodedMaps ==
    /\ \A i \in UploadCalls : reports[i].arg.t = "object"
    /\ (upload.pc = "idle" /\ upload.served > 0 /\ upload.last.decoded = "failed")
          => (upload.response.status = 400 /\ upload.last.calls = 0)

\* the part of C10 the route keeps: a request whose decoding failed ends
\* with status 400 and without a call, and no call is made with a
\* decoding failure
C10_DecodeFailureIs400 ==
    /\ \A i \in UploadCalls : reports[i].arg # SyntaxError
    /\ (upload.pc = "idle" /\ upload.served > 0 /\ upload.last.decoded = "failed")
          => (upload.response.status = 400 /\ upload.last.calls = 0)

\* a request answered 400 after a failed decoding, and a call with a
\* decoded value that is no map
C10_DecodeFailed ==
    upload.pc = "idle" /\ upload.served > 0 /\ upload.last.decoded = "failed"

C10_NonMapAnalyzed ==
    \E i \in UploadCalls : reports[i].arg.t # "object" /\ ~IsThrow(reports[i].result)
-----------------------------------------------------------------------------
(* Properties of the single scorers and finding generators, checked under  *)
(* Spec                                                                    *)

\* spec.paths || {} of a document
PathsOf(doc) == Or(Get(doc, "paths"), Obj(<<>>))

\* the four per-operation terms calculateDocumentationScore adds for doc:
\* description/summary, operationId, responses, parameters
OperationTermsOf(doc) ==
    IF Len(Keys(PathsOf(doc))) > 0
    THEN OperationTerms(OperationRefs(PathsOf(doc)), Len(Keys(PathsOf(doc))))
    ELSE <<Zero, Zero, Zero, Zero>>

\* C11 (as claimed): for every analysed document, the description/summary
\* term of the documentation score is at most 0.2, the operationId term at
\* most 0.1, the responses term at most 0.2 and the parameters term at most
\* 0.2, and the score is the clamped sum of the info bonuses and these
\* terms; with zero paths the four terms are 0.
C11_TermsWithinCaps ==
    \A i \in Returned :
        /\ RLe(OperationTermsOf(reports[i].arg)[1], Tenths(2))
        /\ RLe(OperationTermsOf(reports[i].arg)[2], Tenths(1))
        /\ RLe(OperationTermsOf(reports[i].arg)[3], Tenths(2))
        /\ RLe(OperationTermsOf(reports[i].arg)[4], Tenths(2))
        /\ reports[i].result.scores.documentation.score =
              RMin(One, RSum(InfoTerms(Get(reports[i].arg, "info"))
                             \o OperationTermsOf(reports[i].arg)))
        /\ (Keys(PathsOf(reports[i].arg)) = <<>> =>
                OperationTermsOf(reports[i].arg) = <<Zero, Zero, Zero, Zero>>)

\* the part of C11 the code keeps: with zero paths the documentation score
\* is the sum of the info bonuses
C11_ZeroPathsNoTerms ==
    \A i \in Returned :
        Keys(PathsOf(reports[i].arg)) = <<>> =>
            reports[i].result.scores.documentation.score =
                RSum(InfoTerms(Get(reports[i].arg, "info")))
\* a key counts as absent when the document has no such key or holds
\* null or an empty value (the empty string, zero) under it
Absent(v) == v \in {Undefined, Null, Str(""), Num(0)}

\* 0.8 less the penalties of the specification, not below 0
ExpectedSyntaxScore(doc) ==
    RMax(Zero,
         RSub(Rat(8, 10), RSum(
            << IF Absent(Get(doc, "paths")) THEN Rat(2, 10) ELSE Zero,
               IF Absent(Get(doc, "info")) THEN Rat(2, 10) ELSE Zero,
               IF Absent(OptGet(Get(doc, "info"), "title")) THEN Rat(1, 10) ELSE Zero,
               IF ~Absent(Get(doc, "swagger")) /\ Get(doc, "swagger") # Str("2.0")
               THEN Rat(2, 10) ELSE Zero,
               IF /\ ~Absent(Get(doc, "openapi"))
                  /\ ~MatchesVersion3(Get(doc, "openapi").v)
               THEN Rat(2, 10) ELSE Zero >>)))

\* C12: in every report the syntax score is max(0, 0.8 - 0.2 [paths
\* absent] - 0.2 [info absent] - 0.1 [info.title absent] - 0.2 [swagger
\* present and not "2.0"] - 0.2 [openapi present and not 3.x.y]), and
\* never above 0.8.
C12_SyntaxScoreFormula ==
    \A i \in Returned :
        /\ reports[i].result.scores.syntax.score = ExpectedSyntaxScore(reports[i].arg)
        /\ RLe(reports[i].result.scores.syntax.score, Rat(8, 10))

\* a report of a document on which all five penalties fall, so that the
\* score is held at 0
C12_Witness ==
    \E i \in Returned :
        /\ Absent(Get(reports[i].arg, "paths"))
        /\ Absent(Get(reports[i].arg, "info"))
        /\ Get(reports[i].arg, "swagger") = Str("1.2")
        /\ Get(reports[i].arg, "openapi") = Str("3.0")
        /\ reports[i].result.scores.syntax.score = Zero

\* the findings among fs that point at path
FindingsAt(fs_, path) == {k \in 1..Len(fs_) : fs_[k].path = path}

\* C13: in every report the syntax findings are an error for paths exactly
\* when paths is absent, an error for info exactly when info is absent, and
\* nothing else, so at most two entries; the penalties for the title and
\* for the version keys add no finding.
C13_SyntaxFindings ==
    \A i \in Returned :
        /\ \A k \in 1..Len(reports[i].result.scores.syntax.findings) :
              /\ reports[i].result.scores.syntax.findings[k].severity = "error"
              /\ reports[i].result.scores.syntax.findings[k].path
                    \in {<<"paths">>, <<"info">>}
        /\ Cardinality(FindingsAt(reports[i].result.scores.syntax.findings, <<"paths">>))
              = IF Absent(Get(reports[i].arg, "paths")) THEN 1 ELSE 0
        /\ Cardinality(FindingsAt(reports[i].result.scores.syntax.findings, <<"info">>))
              = IF Absent(Get(reports[i].arg, "info")) THEN 1 ELSE 0
        /\ Len(reports[i].result.scores.syntax.findings) <= 2

\* a report of a document with paths and info, but without a title and with
\* a swagger and an openapi value that are both penalised: the score is
\* 0.3 and there is no syntax finding
C13_Witness ==
    \E i \in Returned :
        /\ ~Absent(Get(reports[i].arg, "paths"))
        /\ ~Absent(Get(reports[i].arg, "info"))
        /\ Absent(OptGet(Get(reports[i].arg, "info"), "title"))
        /\ Get(reports[i].arg, "swagger") = Str("1.2")
        /\ Get(reports[i].arg, "openapi") = Str("3.0")
        /\ reports[i].result.scores.syntax.score = Rat(3, 10)
        /\ reports[i].result.scores.syntax.findings = <<>>

\* some entry of a sequence of servers has a url with the prefix https://
SomeHttpsServer(servers) ==
    \E k \in 1..Len(servers.v) :
        /\ servers.v[k].t = "object"
        /\ Get(servers.v[k], "url").t = "string"
        /\ StartsWith(Get(servers.v[k], "url").v, "https://")

\* the HTTPS rule of the specification: the servers decide when there are
\* any, host and schemes are read only without servers
HttpsEnforced(doc) ==
    IF Get(doc, "servers").t = "array" /\ Get(doc, "servers").v # <<>>
    THEN SomeHttpsServer(Get(doc, "servers"))
    ELSE IF ~Absent(Get(doc, "host"))
    THEN /\ Get(doc, "schemes").t = "array"
         /\ \E k \in 1..Len(Get(doc, "schemes").v) :
                Get(doc, "schemes").v[k] = Str("https")
    ELSE FALSE

SchemeDefined(doc) ==
    \/ ~Absent(Get(doc, "securityDefinitions"))
    \/ ~Absent(OptGet(Get(doc, "components"), "securitySchemes"))

SecurityRequired(doc) ==
    Get(doc, "security").t = "array" /\ Get(doc, "security").v # <<>>

\* C14: in every report the security score is 0.5 [a scheme is defined] +
\* 0.3 [root security is a non-empty sequence] + 0.2 [HTTPS enforced], and
\* the findings hold the warning 'API does not enforce HTTPS' exactly when
\* HTTPS is not enforced, under one rule for both: with servers, some url
\* starts with https:// (host and schemes are ignored); without servers
\* but with a host, schemes contains "https"; otherwise not enforced.
C14_HttpsRuleInScoreAndFindings ==
    \A i \in Returned :
        /\ reports[i].result.scores.security.score
              = RSum(<< IF SchemeDefined(reports[i].arg) THEN Rat(5, 10) ELSE Zero,
                        IF SecurityRequired(reports[i].arg) THEN Rat(3, 10) ELSE Zero,
                        IF HttpsEnforced(reports[i].arg) THEN Rat(2, 10) ELSE Zero >>)
        /\ HasFinding(reports[i].result.scores.security.findings,
                      "warning", "API does not enforce HTTPS")
              <=> ~HttpsEnforced(reports[i].arg)

\* a report of a document whose servers have no https url while its host
\* comes with the scheme https: no HTTPS bonus, and the warning is there
C14_Witness ==
    \E i \in Returned :
        /\ Get(reports[i].arg, "servers").t = "array"
        /\ Get(reports[i].arg, "servers").v # <<>>
        /\ ~SomeHttpsServer(Get(reports[i].arg, "servers"))
        /\ ~Absent(Get(reports[i].arg, "host"))
        /\ Get(reports[i].arg, "schemes") = Arr(<<Str("http"), Str("https")>>)
        /\ SchemeDefined(reports[i].arg)
        /\ SecurityRequired(reports[i].arg)
        /\ reports[i].result.scores.security.score = Rat(8, 10)
        /\ HasFinding(reports[i].result.scores.security.findings,
                      "warning", "API does not enforce HTTPS")

\* C15 (as claimed): in every report each of five findings is there exactly
\* when the score pass does not award the matching bonus: the error 'API
\* title is missing' and the title bonus, the warning 'API description is
\* missing' and the description bonus, the tags warning and the tags bonus,
\* the warning about security schemes and the +0.5, the warning about HTTPS
\* and the +0.2.  The code breaks it for tags that are no sequence.
C15_ScoreAndFindingsAgree ==
    \A i \in Returned :
        /\ HasFinding(reports[i].result.scores.documentation.findings,
                      "error", "API title is missing")
              <=> InfoTerms(Get(reports[i].arg, "info"))[1] = Zero
        /\ HasFinding(reports[i].result.scores.documentation.findings,
                      "warning", "API description is missing")
              <=> InfoTerms(Get(reports[i].arg, "info"))[2] = Zero
        /\ HasFinding(reports[i].result.scores.bestPractices.findings,
                      "warning", "API does not define tags for organizing operations")
              <=> ~NonEmptyTags(Get(reports[i].arg, "tags"))
        /\ HasFinding(reports[i].result.scores.security.findings,
                      "warning", "API does not define any security schemes")
              <=> ~HasSecuritySchemes(reports[i].arg)
        /\ HasFinding(reports[i].result.scores.security.findings,
                      "warning", "API does not enforce HTTPS")
              <=> ScoreHasHttps(reports[i].arg) # "found"

\* the part of C15 the code keeps: the four pairs other than the tags
C15_InfoAndSecurityAgree ==
    \A i \in Returned :
        /\ HasFinding(reports[i].result.scores.documentation.findings,
                      "error", "API title is missing")
              <=> InfoTerms(Get(reports[i].arg, "info"))[1] = Zero
        /\ HasFinding(reports[i].result.scores.documentation.findings,
                      "warning", "API description is missing")
              <=> InfoTerms(Get(reports[i].arg, "info"))[2] = Zero
        /\ HasFinding(reports[i].result.scores.security.findings,
                      "warning", "API does not define any security schemes")
              <=> ~HasSecuritySchemes(reports[i].arg)
        /\ HasFinding(reports[i].result.scores.security.findings,
                      "warning", "API does not enforce HTTPS")
              <=> ScoreHasHttps(reports[i].arg) # "found"

\* tags that are a sequence: there the tags warning and the tags bonus agree
C15_SequenceTagsAgree ==
    \A i \in Returned :
        Get(reports[i].arg, "tags").t \in {"undefined", "array"}
        => (HasFinding(reports[i].result.scores.bestPractices.findings,
                       "warning", "API does not define tags for organizing operations")
              <=> ~NonEmptyTags(Get(reports[i].arg, "tags")))

\* C16 (as claimed): in every report specVersion is "Swagger " followed by
\* the swagger value whenever the document has a swagger key, whatever its
\* value, and otherwise "OpenAPI " followed by the openapi value.
C16_SwaggerKeyDecides ==
    \A i \in Returned :
        reports[i].result.specVersion
          = IF HasKey(reports[i].arg, "swagger")
            THEN "Swagger " \o JsString(Get(reports[i].arg, "swagger"))
            ELSE "OpenAPI " \o JsString(Get(reports[i].arg, "openapi"))

\* C16: in every report specVersion is "Swagger " followed by the swagger
\* value whenever the swagger value is not null, empty or zero, and
\* otherwise "OpenAPI " followed by the openapi value ("OpenAPI undefined"
\* without an openapi key); the value is not validated.
C16_SwaggerValueDecides ==
    \A i \in Returned :
        reports[i].result.specVersion
          = IF ~Absent(Get(reports[i].arg, "swagger"))
            THEN "Swagger " \o JsString(Get(reports[i].arg, "swagger"))
            ELSE "OpenAPI " \o JsString(Get(reports[i].arg, "openapi"))

\* a report of a document with an empty swagger value, next to an openapi
\* value or alone: the report names the document an OpenAPI one
C16_Witness ==
    \E i \in Returned :
        \/ /\ Get(reports[i].arg, "swagger") = Str("")
           /\ Get(reports[i].arg, "openapi") = Str("3.0.1")
           /\ reports[i].result.specVersion = "OpenAPI 3.0.1"
        \/ /\ Get(reports[i].arg, "swagger") = Str("")
           /\ ~HasKey(reports[i].arg, "openapi")
           /\ reports[i].result.specVersion = "OpenAPI undefined"

\* the severity and the place of each finding
Places(fs_) == {<<fs_[k].severity, fs_[k].path>> : k \in 1..Len(fs_)}

Undescribed(operation) ==
    Absent(Get(operation, "description")) /\ Absent(Get(operation, "summary"))

\* the documentation findings the specification lists for a document whose
\* operations are ops
ExpectedDocumentationPlaces(doc, ops) ==
    (IF Absent(OptGet(Get(doc, "info"), "title"))
     THEN {<<"error", <<"info", "title">> >>} ELSE {})
    \cup
    (IF Absent(OptGet(Get(doc, "info"), "description"))
     THEN {<<"warning", <<"info", "description">> >>} ELSE {})
    \cup
    {<<"warning", <<"paths", ops[k].path, ops[k].method, "description">> >> :
        k \in {n \in 1..Len(ops) : Undescribed(ops[n].operation)}}
    \cup
    {<<"warning", <<"paths", ops[k].path, ops[k].method, "operationId">> >> :
        k \in {n \in 1..Len(ops) : Absent(Get(ops[n].operation, "operationId"))}}

\* C17: in every report the documentation findings are exactly: one error
\* if info.title is missing, one warning if info.description is missing,
\* one warning for each operation with neither description nor summary and
\* one warning for each operation without operationId; nothing else, so a
\* missing info.version produces no finding.
C17_DocumentationFindings ==
    \A i \in Returned :
        /\ Places(reports[i].result.scores.documentation.findings)
              = ExpectedDocumentationPlaces(reports[i].arg, OperationsOf(reports[i].arg))
        /\ Len(reports[i].result.scores.documentation.findings)
              = Cardinality(ExpectedDocumentationPlaces(reports[i].arg,
                                                        OperationsOf(reports[i].arg)))

\* a report of a document with two operations, one with a summary instead
\* of a description and without operationId, the other with neither
\* description nor summary: three warnings about operations
C17_Witness ==
    \E i \in Returned :
        /\ Len(OperationsOf(reports[i].arg)) = 2
        /\ \E k \in 1..2 :
              /\ Absent(Get(OperationsOf(reports[i].arg)[k].operation, "description"))
              /\ ~Absent(Get(OperationsOf(reports[i].arg)[k].operation, "summary"))
              /\ Absent(Get(OperationsOf(reports[i].arg)[k].operation, "operationId"))
        /\ \E k \in 1..2 : Undescribed(OperationsOf(reports[i].arg)[k].operation)
        /\ ~Absent(OptGet(Get(reports[i].arg, "info"), "title"))
        /\ ~Absent(OptGet(Get(reports[i].arg, "info"), "description"))
        /\ Len(reports[i].result.scores.documentation.findings) = 3

\* a response that carries examples or example
CarriesExample(response) ==
    /\ ~IsNullish(response)
    /\ ~Absent(Get(response, "examples")) \/ ~Absent(Get(response, "example"))

\* some response of the operation, under any status code, carries one
OperationHasExample(operation) ==
    /\ ~Absent(Get(operation, "responses"))
    /\ \E j \in 1..Len(Keys(Get(operation, "responses"))) :
          CarriesExample(Get(Get(operation, "responses"),
                             Keys(Get(operation, "responses"))[j]))

SomeExample(ops) == \E k \in 1..Len(ops) : OperationHasExample(ops[k].operation)

TagsNonEmptySequence(doc) ==
    Get(doc, "tags").t = "array" /\ Get(doc, "tags").v # <<>>

\* C18: in every report the best-practices score is min(1, 0.5 + 0.2 [tags
\* is a non-empty sequence] + 0.3 [some response of some operation, under
\* any status code, carries examples or example]), wherever the first such
\* response stands; the score is one of 0.5, 0.7, 0.8 and 1.0.
C18_BestPracticesScore ==
    \A i \in Returned :
        /\ reports[i].result.scores.bestPractices.score
              = RMin(One,
                     RSum(<< Rat(5, 10),
                             IF TagsNonEmptySequence(reports[i].arg)
                             THEN Rat(2, 10) ELSE Zero,
                             IF SomeExample(OperationsOf(reports[i].arg))
                             THEN Rat(3, 10) ELSE Zero >>))
        /\ reports[i].result.scores.bestPractices.score
              \in {Rat(5, 10), Rat(7, 10), Rat(8, 10), Rat(10, 10)}

\* a report of a document whose first operation has responses without an
\* example and whose second operation has a response with one: 0.8
C18_Witness ==
    \E i \in Returned :
        /\ Len(OperationsOf(reports[i].arg)) = 2
        /\ ~Absent(Get(OperationsOf(reports[i].arg)[1].operation, "responses"))
        /\ ~OperationHasExample(OperationsOf(reports[i].arg)[1].operation)
        /\ OperationHasExample(OperationsOf(reports[i].arg)[2].operation)
        /\ reports[i].result.scores.bestPractices.score = Rat(8, 10)

\* a report of a document with tags and a response with examples: 1.0
C18_FullScore ==
    \E i \in Returned :
        /\ TagsNonEmptySequence(reports[i].arg)
        /\ SomeExample(OperationsOf(reports[i].arg))
        /\ reports[i].result.scores.bestPractices.score = One

\* the status codes of an operation under which the specification wants an
\* example: "200" and "201", when the response there carries none
CodesWithoutExample(operation) ==
    IF Absent(Get(operation, "responses")) THEN {}
    ELSE {Keys(Get(operation, "responses"))[j] :
            j \in {n \in 1..Len(Keys(Get(operation, "responses"))) :
                     /\ Keys(Get(operation, "responses"))[n] \in {"200", "201"}
                     /\ ~CarriesExample(Get(Get(operation, "responses"),
                                            Keys(Get(operation, "responses"))[n]))}}

\* the best-practices findings the specification lists for a document whose
\* operations are ops
ExpectedBestPracticesPlaces(doc, ops) ==
    (IF Absent(Get(doc, "tags")) \/ Get(doc, "tags") = Arr(<<>>)
     THEN {<<"warning", <<"tags">> >>} ELSE {})
    \cup
    UNION {{<<"info", <<"paths", ops[k].path, ops[k].method, "responses", code>> >> :
              code \in CodesWithoutExample(ops[k].operation)} :
           k \in 1..Len(ops)}

\* C19: in every report the best-practices findings are exactly: one warning
\* if tags is missing or empty, and one info finding for each response
\* under the status code "200" or "201" that has neither examples nor
\* example, at the place [paths, path, method, responses, code]; a response
\* under another status code never produces one.
C19_BestPracticesFindings ==
    \A i \in Returned :
        /\ Places(reports[i].result.scores.bestPractices.findings)
              = ExpectedBestPracticesPlaces(reports[i].arg, OperationsOf(reports[i].arg))
        /\ Len(reports[i].result.scores.bestPractices.findings)
              = Cardinality(ExpectedBestPracticesPlaces(reports[i].arg,
                                                        OperationsOf(reports[i].arg)))

\* a report of a document without tags whose one operation has a response
\* without an example under "200" and another one under "500": the tags
\* warning and one info finding, for "200"
C19_Witness ==
    \E i \in Returned :
        /\ Absent(Get(reports[i].arg, "tags"))
        /\ Len(OperationsOf(reports[i].arg)) = 1
        /\ Keys(Get(OperationsOf(reports[i].arg)[1].operation, "responses"))
              = <<"200", "500">>
        /\ CodesWithoutExample(OperationsOf(reports[i].arg)[1].operation) = {"200"}
        /\ ~CarriesExample(Get(Get(OperationsOf(reports[i].arg)[1].operation,
                                   "responses"), "500"))
        /\ Len(reports[i].result.scores.bestPractices.findings) = 2

\* some response of the operation under a 4xx or 5xx status code has a
\* description
OperationDescribesError(operation) ==
    /\ ~Absent(Get(operation, "responses"))
    /\ \E j \in 1..Len(Keys(Get(operation, "responses"))) :
          /\ CharAt(Keys(Get(operation, "responses"))[j], 1) \in {"4", "5"}
          /\ ~IsNullish(Get(Get(operation, "responses"),
                            Keys(Get(operation, "responses"))[j]))
          /\ ~Absent(Get(Get(Get(operation, "responses"),
                             Keys(Get(operation, "responses"))[j]), "description"))

SomeErrorDescription(ops) ==
    \E k \in 1..Len(ops) : OperationDescribesError(ops[k].operation)

\* C20: in every report the usability score is 1.0 if some response under
\* a 4xx or 5xx status code, of any operation, has a description, and 0.7
\* otherwise; there is no other value.
C20_UsabilityScore ==
    \A i \in Returned :
        reports[i].result.scores.usability.score
          = IF SomeErrorDescription(OperationsOf(reports[i].arg))
            THEN One ELSE Rat(7, 10)

\* a report of a document whose only described error response stands under
\* a 5xx code, in the second operation, after an operation with an error
\* response without description: 1.0
C20_Witness ==
    \E i \in Returned :
        /\ Len(OperationsOf(reports[i].arg)) = 2
        /\ Keys(Get(OperationsOf(reports[i].arg)[1].operation, "responses"))
              = <<"200", "404">>
        /\ ~OperationDescribesError(OperationsOf(reports[i].arg)[1].operation)
        /\ Keys(Get(OperationsOf(reports[i].arg)[2].operation, "responses"))
              = <<"200", "500">>
        /\ OperationDescribesError(OperationsOf(reports[i].arg)[2].operation)
        /\ reports[i].result.scores.usability.score = One

-----------------------------------------------------------------------------
(* The order of the findings, against the document as it was written *)

\* the place of the key k among keys as they are written
WrittenRank(keys, k) == KeyIndex(keys, k)

\* the place of the key k among keys when the integer-like keys come first,
\* in ascending order, and the other keys after them as they are written
EnumerationRank(keys, k) ==
    IF IsIndexKey(k)
    THEN 1 + Cardinality({n \in 1..Len(keys) :
                            IsIndexKey(keys[n]) /\ KeyNumber(keys[n]) < KeyNumber(k)})
    ELSE Cardinality({n \in 1..Len(keys) : IsIndexKey(keys[n])})
         + Cardinality({n \in 1..KeyIndex(keys, k) : ~IsIndexKey(keys[n])})

\* the check of one operation a finding comes from: a status code by its
\* rank, the description before the operationId
CheckRank(path, codeRank) ==
    IF Len(path) = 5
    THEN codeRank
    ELSE IF path[4] = "operationId" THEN 2 ELSE 1

\* where a finding stands by the claimed order: document-level findings
\* first, then by path, then by method, then by check, the keys of the
\* written document doc ranked as they are written
WrittenPosition(doc, path) ==
    IF Len(path) < 3 THEN <<0, 0, 0, 0>>
    ELSE <<1,
           WrittenRank(Keys(Get(doc, "paths")), path[2]),
           WrittenRank(Keys(Get(Get(doc, "paths"), path[2])), path[3]),
           CheckRank(path,
               IF Len(path) = 5
               THEN WrittenRank(Keys(Get(Get(Get(Get(doc, "paths"), path[2]),
                                             path[3]), "responses")), path[5])
               ELSE 0)>>

\* the same with the keys ranked as an object enumerates them
EnumerationPosition(doc, path) ==
    IF Len(path) < 3 THEN <<0, 0, 0, 0>>
    ELSE <<1,
           EnumerationRank(Keys(Get(doc, "paths")), path[2]),
           EnumerationRank(Keys(Get(Get(doc, "paths"), path[2])), path[3]),
           CheckRank(path,
               IF Len(path) = 5
               THEN EnumerationRank(Keys(Get(Get(Get(Get(doc, "paths"), path[2]),
                                                 path[3]), "responses")), path[5])
               ELSE 0)>>

\* a stands before b, or both are document-level
InOrder(a, b) ==
    \/ a = <<0, 0, 0, 0>>
    \/ \E n \in 1..4 : a[n] < b[n] /\ \A m \in 1..(n - 1) : a[m] = b[m]

CategoryNames == {"documentation", "syntax", "bestPractices", "security", "usability"}

\* the reports of the document under analysis
ReturnedOfSpec == {i \in Returned : reports[i].of = "spec"}

\* C21 (as claimed): in every report, within each category, the
\* document-level findings come first, then the findings follow the order
\* in which the paths are written in the document, then the order in which
\* the methods are written under the path, then (best practices) the order
\* in which the status codes are written, and for one operation the missing
\* description stands before the missing operationId.
C21_WrittenOrder ==
    \A i \in ReturnedOfSpec : \A c \in CategoryNames :
        \A k \in 1..(Len(reports[i].result.scores[c].findings) - 1) :
            InOrder(WrittenPosition(source, reports[i].result.scores[c].findings[k].path),
                    WrittenPosition(source,
                                    reports[i].result.scores[c].findings[k + 1].path))

\* C21: in every report, within each category, the document-level findings
\* come first, then the findings follow the paths, then the methods under
\* the path, then (best practices) the status codes, each in the order an
\* object enumerates its keys: integer-like keys (every status code) in
\* ascending order first, then the other keys (every path that starts with
\* "/", every method) as they are written; for one operation the missing
\* description stands before the missing operationId.
C21_EnumerationOrder ==
    \A i \in ReturnedOfSpec : \A c \in CategoryNames :
        \A k \in 1..(Len(reports[i].result.scores[c].findings) - 1) :
            InOrder(EnumerationPosition(source,
                                        reports[i].result.scores[c].findings[k].path),
                    EnumerationPosition(source,
                                        reports[i].result.scores[c].findings[k + 1].path))

\* a report of a document that writes "201" before "200", both without an
\* example: the finding for "200" stands before the one for "201"
C21_Witness ==
    \E i \in ReturnedOfSpec :
        /\ Keys(Get(Get(Get(Get(source, "paths"), "/pets"), "get"), "responses"))
              = <<"201", "200">>
        /\ Len(reports[i].result.scores.bestPractices.findings) = 3
        /\ reports[i].result.scores.bestPractices.findings[2].path
              = <<"paths", "/pets", "get", "responses", "200">>
        /\ reports[i].result.scores.bestPractices.findings[3].path
              = <<"paths", "/pets", "get", "responses", "201">>

-----------------------------------------------------------------------------
(* The path-level parameters *)

\* a map without its parameters entry, and with one more
WithoutParameters(item) ==
    IF item.t = "object" THEN Obj(SelectSeq(item.v, LAMBDA e : e[1] # "parameters"))
    ELSE item

WithParameters(item) ==
    IF item.t = "object" /\ ~HasKey(item, "parameters")
    THEN Obj(item.v \o << <<"parameters",
                           Arr(<< Obj(<< <<"name", Str("limit")>> >>) >>)>> >>)
    ELSE item

\* the document with the path-level parameters entries removed
StripParameters(doc) ==
    IF doc.t = "object" /\ Get(doc, "paths").t = "object"
    THEN Obj([n \in 1..Len(doc.v) |->
                IF doc.v[n][1] = "paths"
                THEN <<"paths", Obj([m \in 1..Len(doc.v[n][2].v) |->
                                       <<doc.v[n][2].v[m][1],
                                         WithoutParameters(doc.v[n][2].v[m][2])>>])>>
                ELSE doc.v[n]])
    ELSE doc

\* the document with a parameters entry added to every path that has none
AddParameters(doc) ==
    IF doc.t = "object" /\ Get(doc, "paths").t = "object"
    THEN Obj([n \in 1..Len(doc.v) |->
                IF doc.v[n][1] = "paths"
                THEN <<"paths", Obj([m \in 1..Len(doc.v[n][2].v) |->
                                       <<doc.v[n][2].v[m][1],
                                         WithParameters(doc.v[n][2].v[m][2])>>])>>
                ELSE doc.v[n]])
    ELSE doc

\* the five scores with their findings, or the TypeError of the call
CategoriesOf(result) == IF IsThrow(result) THEN result ELSE result.scores

\* C22: the parameters key under a path is never taken for an operation:
\* the analysis of a document, that of the document without its path-level
\* parameters entries and that of the document with a parameters entry
\* added to its paths have the same five scores and the same five lists of
\* findings. Every report is the latest one in the state its call leads to.
C22_ParametersIgnored ==
    \A i \in {Len(reports)} \ {0} :
        /\ CategoriesOf(analyzeApiSpec(StripParameters(reports[i].arg), FileName, 0))
              = CategoriesOf(reports[i].result)
        /\ CategoriesOf(analyzeApiSpec(AddParameters(reports[i].arg), FileName, 0))
              = CategoriesOf(reports[i].result)

\* a report of a document with a path that has parameters and an operation
\* with findings
C22_Witness ==
    \E i \in Returned :
        /\ StripParameters(reports[i].arg) # reports[i].arg
        /\ Len(OperationsOf(reports[i].arg)) >= 1
        /\ reports[i].result.scores.documentation.findings # <<>>
        /\ reports[i].result.scores.usability.findings # <<>>

-----------------------------------------------------------------------------
(* Bounds of the syntax score *)

InvalidSwagger(doc) == ~Absent(Get(doc, "swagger")) /\ Get(doc, "swagger") # Str("2.0")

InvalidOpenapi(doc) ==
    ~Absent(Get(doc, "openapi")) /\ ~MatchesVersion3(Get(doc, "openapi").v)

\* C23: in every report, a document without info has a syntax score of at
\* most 0.5 (the penalties for info and for the title both apply); the
\* score is 0 only for a document that lacks paths and info and has an
\* invalid swagger and an invalid openapi value; a document with at most
\* one of the two version keys has a score of at least 0.1.
C23_SyntaxScoreBounds ==
    \A i \in Returned :
        /\ Absent(Get(reports[i].arg, "info"))
              => RLe(reports[i].result.scores.syntax.score, Rat(5, 10))
        /\ reports[i].result.scores.syntax.score = Zero
              => /\ Absent(Get(reports[i].arg, "paths"))
                 /\ Absent(Get(reports[i].arg, "info"))
                 /\ InvalidSwagger(reports[i].arg)
                 /\ InvalidOpenapi(reports[i].arg)
        /\ Absent(Get(reports[i].arg, "swagger")) \/ Absent(Get(reports[i].arg, "openapi"))
              => RLe(Rat(1, 10), reports[i].result.scores.syntax.score)

\* a report of a document without paths and info and with an invalid
\* swagger value as its only version key: the score is 0.1
C23_Witness ==
    \E i \in Returned :
        /\ Absent(Get(reports[i].arg, "paths"))
        /\ Absent(Get(reports[i].arg, "info"))
        /\ InvalidSwagger(reports[i].arg)
        /\ ~HasKey(reports[i].arg, "openapi")
        /\ reports[i].result.scores.syntax.score = Rat(1, 10)

-----------------------------------------------------------------------------
(* Server errors in the usability score and in the usability findings *)

\* the error responses of the operation are described 5xx responses only
OnlyDescribed5xx(operation) ==
    /\ No4xxCode(Get(operation, "responses"))
    /\ OperationDescribesError(operation)

\* C24: in every report, an operation whose error responses are under 5xx
\* codes only, one of them with a description, earns the document the
\* error-description bonus (usability score 1.0) and still has the finding
\* 'does not define any 4xx error responses'.
C24_Described5xxBonusAndFinding ==
    \A i \in Returned : \A k \in 1..Len(OperationsOf(reports[i].arg)) :
        OnlyDescribed5xx(OperationsOf(reports[i].arg)[k].operation)
        => /\ reports[i].result.scores.usability.score = One
           /\ Cardinality(Missing4xxFindings(reports[i].result,
                                              OperationsOf(reports[i].arg)[k])) = 1

\* a report of a document whose one operation has the one response
\* {"500": {description}}: score 1.0 and one usability finding
C24_Witness ==
    \E i \in Returned :
        /\ Len(OperationsOf(reports[i].arg)) = 1
        /\ Get(OperationsOf(reports[i].arg)[1].operation, "responses")
              = Obj(<< <<"500", Described>> >>)
        /\ reports[i].result.scores.usability.score = One
        /\ Len(reports[i].result.scores.usability.findings) = 1

-----------------------------------------------------------------------------
(* Operations without responses and with an empty responses map *)

\* the findings among fs that are about the operation ref
FindingsAbout(fs_, ref) ==
    {k \in 1..Len(fs_) :
        /\ Len(fs_[k].path) >= 3
        /\ SubSeq(fs_[k].path, 1, 3) = <<"paths", ref.path, ref.method>>}

\* C25: in every report, an operation without a responses key has no
\* usability finding and no best-practices finding, and an operation whose
\* responses is the empty map has the usability finding 'does not define
\* any 4xx error responses'.
C25_NoResponsesAndEmptyResponses ==
    \A i \in Returned : \A k \in 1..Len(OperationsOf(reports[i].arg)) :
        /\ ~HasKey(OperationsOf(reports[i].arg)[k].operation, "responses")
              => /\ FindingsAbout(reports[i].result.scores.usability.findings,
                                  OperationsOf(reports[i].arg)[k]) = {}
                 /\ FindingsAbout(reports[i].result.scores.bestPractices.findings,
                                  OperationsOf(reports[i].arg)[k]) = {}
        /\ Get(OperationsOf(reports[i].arg)[k].operation, "responses") = Obj(<<>>)
              => Cardinality(Missing4xxFindings(reports[i].result,
                                                OperationsOf(reports[i].arg)[k])) = 1

\* a report of a document whose one operation has the empty map for its
\* responses: one usability finding, and no best-practices finding about
\* the operation
C25_Witness ==
    \E i \in Returned :
        /\ Len(OperationsOf(reports[i].arg)) = 1
        /\ Get(OperationsOf(reports[i].arg)[1].operation, "responses") = Obj(<<>>)
        /\ Len(reports[i].result.scores.usability.findings) = 1
        /\ FindingsAbout(reports[i].result.scores.bestPractices.findings,
                         OperationsOf(reports[i].arg)[1]) = {}

\* a report of a document with an operation without a responses key
C25_NoResponsesReached ==
    \E i \in Returned : \E k \in 1..Len(OperationsOf(reports[i].arg)) :
        /\ OperationsOf(reports[i].arg)[k].operation.t = "object"
        /\ ~HasKey(OperationsOf(reports[i].arg)[k].operation, "responses")
        /\ reports[i].result.scores.documentation.findings # <<>>
-----------------------------------------------------------------------------
\* Retrieving what the upload route returned

\* the ids that POST had returned in a 200 response when the last GET was
\* served: the k-th request gets the id k, and a request whose result is in
\* the Map ends with 200 and its id (lines 123-148)
ReturnedBeforeRetrieval ==
    {d.analysisId : d \in {r \in analysisResults : r.analysisId <= retrieved.after}}

StoredData(id) ==
    ResultText(CHOOSE d \in analysisResults : d.analysisId = id).value

\* C26: every analysisId that POST /api/analyze returned in a successful
\* response is retrievable afterwards: a later GET of that id answers 200
\* with the stored result, spec, originalSpec and extractedSpecs, never 404
C26_ReturnedIdRetrievable ==
    (retrieved.id \in ReturnedBeforeRetrieval) =>
        /\ retrieved.response.status = 200
        /\ retrieved.response.body = StoredData(retrieved.id)

\* what does hold: a GET that answers 200 answers with the data the Map
\* holds for that id
C26_RetrievedIsStored ==
    (retrieved.id > 0 /\ retrieved.response.status = 200) =>
        /\ \E d \in analysisResults : d.analysisId = retrieved.id
        /\ retrieved.response.body = StoredData(retrieved.id)

\* a returned id is retrieved with 200
C26_RetrievedReached ==
    /\ retrieved.id \in ReturnedBeforeRetrieval
    /\ retrieved.response.status = 200

\* a returned id is answered with 404
C26_NotFoundReached ==
    /\ retrieved.id \in ReturnedBeforeRetrieval
    /\ retrieved.response.status = 404

-----------------------------------------------------------------------------
\* The upload storage after an error response

\* the last request of the upload route ended in an error response; the
\* k-th request is the one that gets the directory k
EndedInError ==
    /\ upload.pc = "idle"
    /\ upload.served > 0
    /\ upload.response.status \in {400, 500}

LeftFiles == {f \in fs.files : f.dir = upload.served}

\* C27: a POST /api/analyze that ends in an error response (400 or 500)
\* leaves the upload storage as it was before the request: its per-analysis
\* directory is not there, no uploaded or extracted file is there, and no
\* analysis-result.json
C27_ErrorLeavesStorage ==
    EndedInError =>
        /\ upload.served \notin fs.dirs
        /\ LeftFiles = {}

\* what does hold: a request that ends in an error response has written
\* no analysis-result.json
C27_ErrorWritesNoResult ==
    EndedInError => \A f \in LeftFiles : f.name # "analysis-result.json"

\* what does hold: the requests that are answered before mkdir, or whose
\* mkdir failed, leave no directory
C27_NoFileLeavesStorage ==
    (EndedInError /\ upload.response.body = "No file provided") =>
        /\ upload.served \notin fs.dirs
        /\ LeftFiles = {}

\* the error responses after which the directory, or a file in it, is left
C27_UnsupportedLeavesDirectory ==
    /\ EndedInError
    /\ upload.response = Response(400, "Unsupported file format")
    /\ upload.served \in fs.dirs

C27_EmptyJarLeavesDirectory ==
    /\ EndedInError
    /\ upload.response =
         Response(400, "No API specification files found in the JAR file")
    /\ upload.served \in fs.dirs

C27_UndecodableLeavesUpload ==
    /\ EndedInError
    /\ upload.response =
         Response(400, "Failed to parse API specification. Invalid format.")
    /\ LeftFiles # {}

C27_FailedAnalysisLeavesUpload ==
    /\ EndedInError
    /\ upload.response.status = 500
    /\ upload.last.calls = 1
    /\ LeftFiles # {}

-----------------------------------------------------------------------------
\* The simulated progress of the upload page

\* the step belongs to the submission that is under way: it is not the start
\* of a new one
SameSubmission == page'.submissions = page.submissions

\* the step ends the request of the submission without the redirect
FailureStep ==
    /\ page.request \in {"pending", "json"}
    /\ page'.request = "none"
    /\ ~page'.redirect

ProgressStep ==
    \* a submission starts at 0
    /\ ~SameSubmission => page'.uploadProgress = 0
    \* it never decreases during a submission
    /\ SameSubmission => page'.uploadProgress >= page.uploadProgress
    \* it rises in steps of 5 while the request is pending
    /\ (page.request = "pending" /\ page'.request = "pending")
         => page'.uploadProgress \in {page.uploadProgress, page.uploadProgress + 5}
    \* and is at most 95 then
    /\ page'.request = "pending" => page'.uploadProgress <= 95
    \* it becomes 100 only when the server answered OK
    /\ (page'.uploadProgress = 100 /\ page.uploadProgress # 100)
         => (page.request = "pending" /\ page'.request = "json")
    \* the timer is cleared on every outcome, and nothing moves afterwards
    /\ page'.request # "pending" => ~page'.interval
    /\ (page.request # "pending" /\ SameSubmission)
         => page'.uploadProgress = page.uploadProgress
    \* a failure ends the uploading and sets an error message
    /\ FailureStep => (~page'.isUploading /\ page'.error # "null")

\* C28: during one submission uploadProgress starts at 0, never decreases,
\* rises in steps of 5 and is at most 95 while the request is pending; it
\* becomes 100 only after the server answered OK; on every outcome the timer
\* is cleared and no tick changes uploadProgress afterwards; on failure
\* isUploading is false again and an error message is set
C28_SimulatedProgress == [][ProgressStep]_vars

\* a second submission, started after the first one failed at 95 with the
\* timer stopped, is pending at 95 again
C28_Witness ==
    /\ page.submissions = 2
    /\ page.request = "pending"
    /\ page.uploadProgress = 95
    /\ ~page.interval
    /\ page.error # "null"

\* the server answered OK
C28_CompletedReached ==
    /\ page.uploadProgress = 100
    /\ page.redirect
    /\ page.isUploading

\* the body of an OK answer could not be read
C28_UnreadableAnswerReached ==
    /\ page.uploadProgress = 100
    /\ ~page.isUploading
    /\ page.error = "Unexpected token < in JSON"

====
